---- MODULE Spec2Model ----
(***************************************************************************)
(* Agentling (VespeR): event bus, run manager, process controller, stream  *)
(* parser and agent executor, modelled as state machines.                  *)
(*                                                                         *)
(* The module holds one group of variables per subsystem and one           *)
(* specification per subsystem.  A specification drives its own group and  *)
(* leaves the other groups at their initial value.                         *)
(*                                                                         *)
(*   SpecBus     EventBus.publish / EventRepository.save                   *)
(*   SpecBusReset  the same with calls of EventBus.reset_sequence          *)
(*   SpecParser  ClaudeStreamParser.parse_line                             *)
(*   SpecAgent   AgentExecutor._run_agent                                  *)
(*   SpecBranch  SessionManager.start_run / branch_run                     *)
(*   SpecRun     SessionManager.stream_events, pause_run, resume_run,      *)
(*               abort_run over one PTYController                          *)
(*   SpecPattern AgentExecutor.execute_pattern, provide_human_input        *)
(*   SpecWs      WebSocketManager and websocket_endpoint                   *)
(*   SpecInteractive  InteractiveSession.send_message, terminate,          *)
(*               interrupt_current_response                                *)
(*   SpecEnd     SessionManager.end_interactive_session and                *)
(*               _create_interactive_snapshot, called concurrently         *)
(*   SpecMemory  extract_run_memory, persist_run_memory and                *)
(*               RunMemoryRepository.upsert                                *)
(*   SpecGit     GitTracker.snapshot over a changing working tree          *)
(***************************************************************************)
EXTENDS Integers, Sequences, FiniteSets, TLC

(***************************************************************************)
(* Bounds of the model.                                                    *)
(***************************************************************************)
NumPublishers == 2
MaxEvents == 2

None == "None"

VARIABLES
    \* ---- the events table and the bus counters ----
    sequence_counters,  \* EventBus._sequence_counters: run id -> next sequence
    nextEventId,        \* number of Event objects built so far (fresh uuid4 ids)
    store,              \* the events table, rows in insertion order
    \* ---- EventBus.publish calls in flight (events/bus.py) ----
    pubPc,              \* position of each publish() call in flight
    pubEvent,           \* the Event object each publish() call holds
    dbQueue,            \* store writes posted to the connection, oldest first
    readyQueue,         \* publish() calls whose save() returned, oldest first
    delivered,          \* subscriber invocations, in invocation order
    raised,             \* ids of the events whose publish() call raised to its caller
    handled,            \* how each subscriber invocation of delivered stands
    returned,           \* ids of the events whose publish() call returned normally
    \* ---- ClaudeStreamParser (session/stream_parser.py) ----
    current_tool_id,         \* ClaudeStreamParser._current_tool_id
    current_tool_name,       \* ClaudeStreamParser._current_tool_name
    current_tool_input_json, \* ClaudeStreamParser._current_tool_input_json
    parserOut,               \* what the last parse_line call returned
    parserFed,               \* the tool input text the last returned tool_use was fed
    blockFragments,          \* the partial_json fragments read since the last tool_use block start
    linesParsed,             \* number of parse_line calls so far
    parserLine,              \* the kind of line the last parse_line call got and what it raised
    \* ---- AgentExecutor._run_agent, one invocation (agents/executor.py) ----
    last_bash_command,       \* local last_bash_command
    repeated_bash_count,     \* local repeated_bash_count
    agentPc,                 \* where the invocation is
    agentTerminated,         \* controller.terminate() ran in this invocation
    bashStreak,              \* the Bash command of the latest tool_use events and how many in a row carried it
    \* ---- the runs table (persistence/repositories.py) ----
    runRows,                 \* rows of the runs table, in creation order
    registered,              \* run ids with a git tracker and a controller in SessionManager
    branchCall,              \* the last branch_run call: its arguments and how it ended
    \* ---- one run under SessionManager and its PTYController ----
    run_status,              \* runs.status of the run ("absent" before start_run)
    run_tokens,              \* runs.tokens_in and runs.tokens_out of the run
    active_runs,             \* the run has a controller in SessionManager._active_runs
    proc,                    \* the subprocess: absent, live, stopped (SIGSTOP) or exited
    return_code,             \* Process.returncode once it exited
    sigterm,                 \* SIGTERM was sent and the subprocess has not acted on it
    ctl_paused,              \* PTYController._paused
    pause_event,             \* PTYController._pause_event is set (the gate is open)
    ctl_terminated,          \* PTYController._terminated
    streamPc,                \* what the task driving stream_events awaits
    curEvent,                \* the event stream_events holds
    linesRead,               \* stdout lines read so far
    pausePc,                 \* position of a pause_run call
    resumePc,                \* position of a resume_run call
    abortPc,                 \* position of an abort_run call
    termPc,                  \* position of each terminate() call, by caller
    callsMade,               \* pause_run and resume_run calls made so far
    \* ---- one AgentExecutor.execute_pattern call (agents/executor.py) ----
    pattern,                 \* the AgentPattern executed and the on_checkpoint argument
    execPc,                  \* where the execution is
    patRun,                  \* the run row of the execution: status and error_message
    active_executions,       \* the run id is in AgentExecutor._active_executions
    state,                   \* the PatternExecutionState of the execution
    agent_runs,              \* rows of the agent_runs table, in creation order
    patEvents,               \* the events published on the run, in order
    curRole,                 \* role_in_pattern of the agent invocation in progress
    current_input,           \* local current_input of _execute_loop
    provided,                \* the last provide_human_input call: where the execution was, what it returned
    \* ---- WebSocketManager and websocket_endpoint (web/websocket/handler.py) ----
    global_connections,      \* WebSocketManager._global_connections
    run_connections,         \* WebSocketManager._run_connections: run id -> set of connections
    endpoint,                \* per connection: where its websocket_endpoint call is, its local run_id
    broadcasts,              \* per broadcast_event call: its event's run, its local connections, its sends
    cleaned,                 \* connections a broadcast has removed after a failed send
    \* ---- one InteractiveSession (session/interactive.py) ----
    is_running,              \* InteractiveSession._is_running
    current_process,         \* InteractiveSession._current_process: the process, or None
    turn_count,              \* InteractiveSession._turn_count
    sessionPc,               \* constructed, initialized or terminated
    turns,                   \* per send_message call: where the generator is
    spawned,                 \* the commands given to create_subprocess_exec, in order
    user_events,             \* the turns whose user event was yielded, in order
    live_processes,          \* the subprocesses whose returncode is None
    interrupted,             \* the processes interrupt_current_response has ended
    \* ---- SessionManager.end_interactive_session (session/manager.py) ----
    interactive_sessions,    \* SessionManager._interactive_sessions holds the run
    interactive_tasks,       \* SessionManager._interactive_tasks: the task of the run, or NoTask
    session_is_running,      \* the registered InteractiveSession's _is_running
    taskState,               \* per stream_response task: unborn, running, finished, cancelled
    end_status,              \* runs.status of the interactive run
    session_snapshots,       \* the rows of table session_snapshots, in insert order
    endPc,                   \* per end_interactive_session call: where it is
    existing,                \* per call: the local existing of _create_interactive_snapshot
    \* ---- extract_run_memory / persist_run_memory (session/memory.py) ----
    memPc,                   \* the run of the memory model: running or over
    memLog,                  \* the stored events of the run, in sequence order
    memStatus,               \* runs.status of the run
    run_memory_entries,      \* the rows of table run_memory_entries, in insert order
    memClock,                \* datetime.utcnow(), counted in calls
    persisted,               \* calls of persist_run_memory made for the run
    firstContent,            \* the content of the run's entry after the first call
    \* ---- GitTracker (session/git_tracker.py) ----
    tracker_is_git_repo,     \* GitTracker._is_git_repo: unknown, yes or no
    worktree,                \* per file of the working directory: its two status columns
    git_snapshot,            \* the event of the last snapshot(), with the tree it was taken of
    snapshots_taken          \* calls of snapshot() made

storeVars == <<sequence_counters, nextEventId, store>>

gatherVars == <<handled, returned>>

pubVars == <<pubPc, pubEvent, dbQueue, readyQueue, delivered, raised,
             gatherVars>>

busVars == <<storeVars, pubVars>>

parserVars == <<parserLine, current_tool_id, current_tool_name, current_tool_input_json,
                parserOut, parserFed, blockFragments, linesParsed>>

agentVars == <<last_bash_command, repeated_bash_count, agentPc,
               agentTerminated, bashStreak>>

branchVars == <<runRows, registered, branchCall>>

runVars == <<run_status, run_tokens, active_runs, proc, return_code, sigterm,
             ctl_paused, pause_event, ctl_terminated, streamPc, curEvent,
             linesRead, pausePc, resumePc, abortPc, termPc, callsMade>>

patternVars == <<pattern, execPc, patRun, active_executions, state,
                 agent_runs, patEvents, curRole, current_input, provided>>

wsVars == <<global_connections, run_connections, endpoint, broadcasts,
            cleaned>>

interactiveVars == <<is_running, current_process, turn_count, sessionPc,
                     turns, spawned, user_events, live_processes,
                     interrupted>>

endVars == <<interactive_sessions, interactive_tasks, session_is_running,
             taskState, end_status, session_snapshots, endPc, existing>>

memoryVars == <<memPc, memLog, memStatus, run_memory_entries, memClock,
                persisted, firstContent>>

gitVars == <<tracker_is_git_repo, worktree, git_snapshot, snapshots_taken>>

vars == <<busVars, parserVars, agentVars, branchVars, runVars, patternVars,
          wsVars, interactiveVars,
    endVars,
    memoryVars,
    gitVars>>

\* What the actions of one subsystem leave alone.
nonBusVars == <<parserVars, agentVars, branchVars, runVars, patternVars,
    wsVars, interactiveVars,
    endVars,
    memoryVars,
    gitVars>>

nonParserVars == <<busVars, agentVars, branchVars, runVars, patternVars,
    wsVars, interactiveVars,
    endVars,
    memoryVars,
    gitVars>>

nonAgentVars == <<busVars, parserVars, branchVars, runVars, patternVars,
    wsVars, interactiveVars,
    endVars,
    memoryVars,
    gitVars>>

nonBranchVars == <<pubVars, parserVars, agentVars, runVars, patternVars,
    wsVars, interactiveVars,
    endVars,
    memoryVars,
    gitVars>>

nonRunVars == <<pubVars, parserVars, agentVars, branchVars, patternVars,
    wsVars, interactiveVars,
    endVars,
    memoryVars,
    gitVars>>

nonPatternVars == <<busVars, parserVars, agentVars, branchVars, runVars,
    wsVars, interactiveVars,
    endVars,
    memoryVars,
    gitVars>>

nonWsVars == <<busVars, parserVars, agentVars, branchVars, runVars,
               patternVars, interactiveVars,
    endVars,
    memoryVars,
    gitVars>>

nonInteractiveVars == <<busVars, parserVars, agentVars, branchVars, runVars,
                        patternVars, wsVars,
    endVars,
    memoryVars,
    gitVars>>

nonEndVars == <<busVars, parserVars, agentVars, branchVars,
    runVars, patternVars, wsVars, interactiveVars,
    memoryVars,
    gitVars>>

nonMemoryVars == <<busVars, parserVars, agentVars, branchVars,
    runVars, patternVars, wsVars, interactiveVars, endVars,
    gitVars>>

nonGitVars == <<busVars, parserVars, agentVars, branchVars,
    runVars, patternVars, wsVars, interactiveVars, endVars, memoryVars>>

(***************************************************************************)
(* EventBus                                                                *)
(***************************************************************************)
Publishers == 1..NumPublishers

BusRuns == {"A", "B"}

\* Two of the EventType members: one with a type-specific subscriber, one without.
BusEventTypes == {"stream.assistant", "run.paused"}

\* EventBus._handlers and EventBus._global_handlers after start-up:
\* one handler subscribed to stream.assistant, one subscribed to everything.
handlers == [t \in BusEventTypes |->
                IF t = "stream.assistant" THEN <<"typed">> ELSE <<>>]

global_handlers == <<"global">>

NoEvent == [id |-> 0, run_id |-> None, sequence |-> 0, type |-> None]

\* self._sequence_counters.get(run_id, 0), line 40.
CounterOf(r) ==
    IF r \in DOMAIN sequence_counters THEN sequence_counters[r] ELSE 0

\* self._sequence_counters[run_id] = n, line 42.
CounterSet(r, n) ==
    [x \in (DOMAIN sequence_counters) \cup {r} |->
        IF x = r THEN n ELSE sequence_counters[x]]

InitBusVars ==
    /\ sequence_counters = <<>>
    /\ nextEventId = 0
    /\ store = <<>>
    /\ pubPc = [p \in Publishers |-> "idle"]
    /\ pubEvent = [p \in Publishers |-> NoEvent]
    /\ dbQueue = <<>>
    /\ readyQueue = <<>>
    /\ delivered = <<>>
    /\ raised = {}
    /\ handled = <<>>
    /\ returned = {}

\* publish(), lines 37-46: under the lock the event gets the run's counter
\* value and the counter is incremented; the lock is released; save() is
\* called and its INSERT is posted to the connection before the task
\* suspends (there is no suspension point between the two).
PublishAssign(p, r, t) ==
    /\ UNCHANGED <<nonBusVars, gatherVars>>
    /\ pubPc[p] = "idle"
    /\ nextEventId < MaxEvents
    /\ LET seq == CounterOf(r)
           e == [id |-> nextEventId + 1, run_id |-> r,
                 sequence |-> seq, type |-> t]
       IN /\ pubEvent' = [pubEvent EXCEPT ![p] = e]
          /\ sequence_counters' = CounterSet(r, seq + 1)
    /\ nextEventId' = nextEventId + 1
    /\ pubPc' = [pubPc EXCEPT ![p] = "save"]
    /\ dbQueue' = Append(dbQueue, p)
    /\ UNCHANGED <<store, readyQueue, delivered, raised>>

\* EventRepository.save(), lines 444-458: the INSERT and the commit succeed;
\* the row is in the table and save() returns to publish().
RepositorySaveReturns(p) ==
    /\ UNCHANGED <<nonBusVars, gatherVars>>
    /\ dbQueue # <<>> /\ Head(dbQueue) = p
    /\ pubPc[p] = "save"
    /\ store' = Append(store, pubEvent[p])
    /\ dbQueue' = Tail(dbQueue)
    /\ pubPc' = [pubPc EXCEPT ![p] = "dispatch"]
    /\ readyQueue' = Append(readyQueue, p)
    /\ UNCHANGED <<sequence_counters, nextEventId, pubEvent, delivered,
                   raised>>

\* A publish() whose save() raised dispatches the event all the same.
RepositorySaveRaisesSwallowed(p) ==
    /\ UNCHANGED <<nonBusVars, gatherVars>>
    /\ dbQueue # <<>> /\ Head(dbQueue) = p
    /\ pubPc[p] = "save"
    /\ dbQueue' = Tail(dbQueue)
    /\ pubPc' = [pubPc EXCEPT ![p] = "dispatch"]
    /\ readyQueue' = Append(readyQueue, p)
    /\ UNCHANGED <<sequence_counters, nextEventId, store, pubEvent, delivered,
                   raised>>

\* A publish() that swallows the failure of save(): nothing is written or
\* dispatched, and the call returns normally.
RepositorySaveRaisesHidden(p) ==
    /\ UNCHANGED <<nonBusVars, gatherVars>>
    /\ dbQueue # <<>> /\ Head(dbQueue) = p
    /\ pubPc[p] = "save"
    /\ dbQueue' = Tail(dbQueue)
    /\ pubPc' = [pubPc EXCEPT ![p] = "idle"]
    /\ UNCHANGED <<sequence_counters, nextEventId, store, pubEvent,
                   readyQueue, delivered, raised>>

\* EventRepository.save() raises (the INSERT or the commit fails): nothing is
\* written, the exception leaves publish() at line 46, before the dispatch.
\* The counter keeps the value assigned at line 42.
RepositorySaveRaises(p) ==
    /\ UNCHANGED <<nonBusVars, gatherVars>>
    /\ dbQueue # <<>> /\ Head(dbQueue) = p
    /\ pubPc[p] = "save"
    /\ dbQueue' = Tail(dbQueue)
    /\ pubPc' = [pubPc EXCEPT ![p] = "idle"]
    /\ raised' = raised \cup {pubEvent[p].id}
    /\ UNCHANGED <<sequence_counters, nextEventId, store, pubEvent,
                   readyQueue, delivered>>

\* all_handlers = type_handlers + self._global_handlers, line 52.
AllHandlers(t) == handlers[t] \o global_handlers

Invocations(e) ==
    [i \in 1..Len(AllHandlers(e.type)) |->
        [handler |-> AllHandlers(e.type)[i], id |-> e.id,
         run_id |-> e.run_id, sequence |-> e.sequence]]

\* publish(), lines 48-58: every handler of the event's type and every global
\* handler is invoked with the event (asyncio.gather over _safe_call), and
\* publish() awaits the gather.
PublishDispatch(p) ==
    /\ UNCHANGED nonBusVars
    /\ readyQueue # <<>> /\ Head(readyQueue) = p
    /\ pubPc[p] = "dispatch"
    /\ delivered' = delivered \o Invocations(pubEvent[p])
    /\ handled' = handled \o [i \in 1..Len(AllHandlers(pubEvent[p].type)) |->
                                  "running"]
    /\ readyQueue' = Tail(readyQueue)
    /\ pubPc' = [pubPc EXCEPT ![p] = "gather"]
    /\ UNCHANGED <<sequence_counters, nextEventId, store, pubEvent, dbQueue,
                   raised, returned>>

\* The positions a subscriber invocation can have in delivered.
InvocationSlots == 1..(2 * MaxEvents)

\* The invocation at position i of delivered is in progress.
InProgress(i) == i <= Len(handled) /\ handled[i] = "running"

\* _safe_call, line 63: the handler returns.
HandlerReturns(i) ==
    /\ UNCHANGED nonBusVars
    /\ InProgress(i)
    /\ handled' = [handled EXCEPT ![i] = "returned"]
    /\ UNCHANGED <<storeVars, pubPc, pubEvent, dbQueue, readyQueue,
                   delivered, raised, returned>>

\* A _safe_call that lets the handler's exception through: the gather hands
\* it to publish(), which raises it to its caller.
HandlerRaisesEscapes(i) ==
    /\ UNCHANGED nonBusVars
    /\ InProgress(i)
    /\ delivered[i].handler = "typed"
    /\ handled' = [handled EXCEPT ![i] = "raised"]
    /\ raised' = raised \cup {delivered[i].id}
    /\ pubPc' = [p \in Publishers |->
                   IF pubPc[p] = "gather" /\ pubEvent[p].id = delivered[i].id
                   THEN "idle" ELSE pubPc[p]]
    /\ UNCHANGED <<storeVars, pubEvent, dbQueue, readyQueue, delivered,
                   returned>>

\* _safe_call, lines 62-66: the type-specific handler raises an Exception; it
\* is caught and printed, the invocation ends normally.  (The global handler
\* catches the exceptions of its sends itself, handler.py lines 80-83.)
HandlerRaises(i) ==
    /\ UNCHANGED nonBusVars
    /\ InProgress(i)
    /\ delivered[i].handler = "typed"
    /\ handled' = [handled EXCEPT ![i] = "raised"]
    /\ UNCHANGED <<storeVars, pubPc, pubEvent, dbQueue, readyQueue,
                   delivered, raised, returned>>

\* _safe_call, line 63: the global handler, WebSocketManager.broadcast_event
\* (web/app.py line 202), awaits something that never completes: send_text
\* to a peer that has stopped reading (handler.py line 81).
HandlerBlocks(i) ==
    /\ UNCHANGED nonBusVars
    /\ InProgress(i)
    /\ delivered[i].handler = "global"
    /\ handled' = [handled EXCEPT ![i] = "blocked"]
    /\ UNCHANGED <<storeVars, pubPc, pubEvent, dbQueue, readyQueue,
                   delivered, raised, returned>>

\* The invocations publish() call p has gathered.
Gathered(p) == {i \in 1..Len(delivered) : delivered[i].id = pubEvent[p].id}

\* publish(), lines 55-58: every gathered invocation has ended; the gather
\* completes and publish() returns to its caller.
PublishReturns(p) ==
    /\ UNCHANGED nonBusVars
    /\ pubPc[p] = "gather"
    /\ \A i \in Gathered(p) : handled[i] \in {"returned", "raised"}
    /\ pubPc' = [pubPc EXCEPT ![p] = "idle"]
    /\ returned' = returned \cup {pubEvent[p].id}
    /\ UNCHANGED <<storeVars, pubEvent, dbQueue, readyQueue, delivered,
                   raised, handled>>

\* reset_sequence(), lines 87-89: the run's counter is set to 0, whatever it
\* was.
ResetSequence(r) ==
    /\ UNCHANGED <<nonBusVars, gatherVars>>
    /\ sequence_counters' = CounterSet(r, 0)
    /\ UNCHANGED <<nextEventId, store, pubPc, pubEvent, dbQueue, readyQueue,
                   delivered, raised>>

NextBus ==
    \/ \E p \in Publishers, r \in BusRuns, t \in BusEventTypes :
          PublishAssign(p, r, t)
    \/ \E p \in Publishers : RepositorySaveReturns(p)
    \/ \E p \in Publishers : RepositorySaveRaises(p)
    \/ \E p \in Publishers : PublishDispatch(p)
    \/ \E i \in InvocationSlots : HandlerReturns(i)
    \/ \E i \in InvocationSlots : HandlerRaises(i)
    \/ \E i \in InvocationSlots : HandlerBlocks(i)
    \/ \E p \in Publishers : PublishReturns(p)

\* The bus with a caller of reset_sequence; the application has none.
NextBusReset ==
    \/ NextBus
    \/ \E r \in BusRuns : ResetSequence(r)

(***************************************************************************)
(* Claims about the event bus                                              *)
(***************************************************************************)
StoredSequences(r) ==
    {store[i].sequence : i \in {j \in 1..Len(store) : store[j].run_id = r}}

StoredCount(r) == Cardinality({j \in 1..Len(store) : store[j].run_id = r})

\* C1: for every run, the sequence numbers of the run's stored events are
\* exactly 0..N, without gap and without duplicate, in every reachable state,
\* whatever publishes (also failing ones) have run.
C1_SequenceContiguous ==
    \A r \in BusRuns :
        /\ StoredSequences(r) = 0..(StoredCount(r) - 1)
        /\ Cardinality(StoredSequences(r)) = StoredCount(r)

\* C2: persist-before-dispatch: every event a subscriber has been invoked
\* with is a row of the store with the same run id and sequence number.
C2_PersistBeforeDispatch ==
    \A i \in 1..Len(delivered) :
        \E j \in 1..Len(store) :
            /\ store[j].id = delivered[i].id
            /\ store[j].run_id = delivered[i].run_id
            /\ store[j].sequence = delivered[i].sequence

\* C2 witness: a typed and a global subscriber were invoked with a stored
\* event while another publish of the same run had its store write fail.
C2_Witness ==
    /\ \E i, k \in 1..Len(delivered) :
          /\ delivered[i].handler = "typed"
          /\ delivered[k].handler = "global"
          /\ delivered[i].id = delivered[k].id
          /\ CounterOf(delivered[i].run_id) > StoredCount(delivered[i].run_id)
          /\ \A p \in Publishers : pubPc[p] = "idle"

PersistedInOrder ==
    \A i, j \in 1..Len(store) :
        (i < j /\ store[i].run_id = store[j].run_id)
            => store[i].sequence < store[j].sequence

DispatchedInOrder ==
    \A i, j \in 1..Len(delivered) :
        (i < j /\ delivered[i].run_id = delivered[j].run_id
               /\ delivered[i].handler = delivered[j].handler)
            => delivered[i].sequence < delivered[j].sequence

\* No publish assigns a sequence number of a run while another event of the
\* run has its number and is not persisted yet.
AssignPersistNotInterleaved ==
    \A p, q \in Publishers :
        (p # q /\ pubPc[p] = "save" /\ pubPc[q] = "save")
            => pubEvent[p].run_id # pubEvent[q].run_id

\* C3: two events of one run are persisted in sequence order, subscribers
\* get the lower sequence first, and sequence assignment and persistence of
\* one event are not interleaved with those of another event.
C3_PublishSerialized ==
    /\ PersistedInOrder
    /\ DispatchedInOrder
    /\ AssignPersistNotInterleaved

\* The ids of the events whose store write failed: built, no longer waiting
\* for the connection, and not in the table.
SaveFailed ==
    {id \in 1..nextEventId :
        /\ \A i \in 1..Len(store) : store[i].id # id
        /\ \A p \in Publishers : pubPc[p] = "save" => pubEvent[p].id # id}

\* C20: when the store write of an event fails inside publish, the call
\* raises to its caller and no subscriber is invoked for the event.
C20_FailedSaveRaises ==
    \A id \in SaveFailed :
        /\ id \in raised
        /\ \A i \in 1..Len(delivered) : delivered[i].id # id

\* A failed store write is followed by a successful publish that was
\* dispatched.
C20_Witness ==
    /\ SaveFailed # {}
    /\ \E i \in 1..Len(delivered) : delivered[i].id \notin SaveFailed

\* The type of the event with the id, read from its row.
TypeOfStored(id) ==
    store[CHOOSE j \in 1..Len(store) : store[j].id = id].type

\* The positions of the invocations whose handler raised.
RaisedInvocations ==
    {i \in 1..Len(handled) : handled[i] = "raised"}

\* C21: when a subscriber's handler raises while handling an event, every
\* type-specific and global subscriber of the event has been invoked with it
\* all the same, and publish does not raise to its caller: it returns
\* normally once the other handlers are done.
C21_HandlerErrorIsolated ==
    \A i \in RaisedInvocations :
        LET id == delivered[i].id IN
        /\ \A k \in 1..Len(AllHandlers(TypeOfStored(id))) :
              \E j \in 1..Len(delivered) :
                  /\ delivered[j].id = id
                  /\ delivered[j].handler = AllHandlers(TypeOfStored(id))[k]
        /\ id \notin raised
        /\ \/ id \in returned
           \/ \E p \in Publishers : pubPc[p] = "gather" /\ pubEvent[p].id = id
        /\ (\A j \in 1..Len(delivered) :
               delivered[j].id = id => handled[j] \in {"returned", "raised"})
             => \/ id \in returned
                \/ \E p \in Publishers : ENABLED PublishReturns(p)

\* The type-specific handler of an event raised, its global handler
\* returned, and the publish of the event returned to its caller.
C21_Witness ==
    \E i \in RaisedInvocations :
        /\ delivered[i].id \in returned
        /\ \E j \in 1..Len(delivered) :
              /\ delivered[j].id = delivered[i].id
              /\ delivered[j].handler = "global"
              /\ handled[j] = "returned"

\* The publish calls that wait for a handler that will never return.
BlockedPublishers ==
    {p \in Publishers :
        /\ pubPc[p] = "gather"
        /\ \E i \in Gathered(p) : handled[i] = "blocked"}

\* C22: subscribers never block the publisher: no publish call waits for a
\* handler that never returns, so the publisher can go on to publish its
\* following events.
C22_PublisherNeverBlocked == BlockedPublishers = {}

\* An event of the run has been published: it was given a sequence number.
PublishedOn(r) ==
    \/ \E i \in 1..Len(store) : store[i].run_id = r
    \/ \E p \in Publishers : pubPc[p] # "idle" /\ pubEvent[p].run_id = r
    \/ CounterOf(r) > 0

\* C35: reset_sequence(run_id) on a run of which an event has been published
\* does not reset the run's counter, so a sequence number already assigned
\* in the run is never assigned again.
C35_ResetOnlyBeforeFirstPublish ==
    [][ \A r \in BusRuns :
          (ResetSequence(r) /\ PublishedOn(r)) =>
              sequence_counters' = sequence_counters ]_vars

(***************************************************************************)
(* ClaudeStreamParser                                                      *)
(***************************************************************************)
MaxParserLines == 4

\* Pieces of JSON text that input_json_delta lines carry (partial_json).
Fragments == {"{c", "}", "{}"}

\* The texts json.loads accepts, among the concatenations of Fragments:
\* "{}" and "{c" "}" (an object with the key command).
ValidJson == {<<"{}">>, <<"{c", "}">>}

\* json.loads(text) for a text of ValidJson: the parsed value.
JsonLoads(text) ==
    IF text = <<"{}">>
    THEN [kind |-> "dict", keys |-> {}, raw |-> <<>>]
    ELSE [kind |-> "dict", keys |-> {"command"}, raw |-> <<>>]

RawInput(text) == [kind |-> "raw", keys |-> {"raw"}, raw |-> text]

EmptyDict == [kind |-> "dict", keys |-> {}, raw |-> <<>>]

AbsentInput == [kind |-> "None", keys |-> {}, raw |-> <<>>]

ToolIds == {"t1", "t2"}

ToolNames == {"Bash", "Read"}

NoParserEvent ==
    [type |-> None, tool_name |-> None, tool_id |-> None,
     tool_input |-> AbsentInput, content_type |-> None, content |-> None]

\* The kinds of line parse_line is given: empty (or blank), text that is not
\* JSON, a JSON object, and the JSON values that are not objects.
NonObjectJson == {"number", "string", "array", "null"}

\* A line that is not JSON.
RawLineText == "hello"

\* The call got a line of the kind and raised the exception (None: returned).
ParsedLine(kind, exception) == [kind |-> kind, raised |-> exception]

InitParserVars ==
    /\ current_tool_id = None
    /\ current_tool_name = None
    /\ current_tool_input_json = <<>>
    /\ parserOut = NoParserEvent
    /\ parserFed = <<>>
    /\ blockFragments = <<>>
    /\ linesParsed = 0
    /\ parserLine = ParsedLine(None, None)

ParserCallOn(kind, exception) ==
    /\ UNCHANGED nonParserVars
    /\ linesParsed < MaxParserLines
    /\ linesParsed' = linesParsed + 1
    /\ parserLine' = ParsedLine(kind, exception)

\* A call on a line that is a JSON object of the shape the CLI writes.
ParserCall == ParserCallOn("object", None)

\* A content_block_start that keeps the buffer as it is.
ParseContentBlockStartKeepsBuffer(id, name) ==
    /\ ParserCall
    /\ current_tool_id' = id
    /\ current_tool_name' = name
    /\ blockFragments' = <<>>
    /\ parserOut' = NoParserEvent
    /\ UNCHANGED <<current_tool_input_json, parserFed>>

\* _parse_content_block_start, lines 185-190: a tool_use block opens a tool
\* invocation and resets the buffer; nothing is returned.
ParseContentBlockStartToolUse(id, name) ==
    /\ ParserCall
    /\ current_tool_id' = id
    /\ current_tool_name' = name
    /\ current_tool_input_json' = <<>>
    /\ blockFragments' = <<>>
    /\ parserOut' = NoParserEvent
    /\ UNCHANGED parserFed

\* _parse_content_block_start, lines 191-199: a text block returns an
\* assistant text event and leaves the tool state alone.
ParseContentBlockStartText ==
    /\ ParserCall
    /\ parserOut' = [NoParserEvent EXCEPT !.type = "stream.assistant",
                                          !.content_type = "text"]
    /\ UNCHANGED <<current_tool_id, current_tool_name,
                   current_tool_input_json, parserFed, blockFragments>>

\* _parse_content_block_delta, lines 217-220: the fragment is appended to the
\* buffer (also when no tool invocation is open); nothing is returned.
ParseInputJsonDelta(f) ==
    /\ ParserCall
    /\ Len(current_tool_input_json) < MaxParserLines
    /\ current_tool_input_json' = Append(current_tool_input_json, f)
    /\ blockFragments' = Append(blockFragments, f)
    /\ parserOut' = NoParserEvent
    /\ UNCHANGED <<current_tool_id, current_tool_name, parserFed>>

\* _parse_content_block_delta, lines 208-216: a text_delta returns an
\* assistant event of content_type text_delta.
ParseTextDelta ==
    /\ ParserCall
    /\ parserOut' = [NoParserEvent EXCEPT !.type = "stream.assistant",
                                          !.content_type = "text_delta"]
    /\ UNCHANGED <<current_tool_id, current_tool_name,
                   current_tool_input_json, parserFed, blockFragments>>

\* _parse_inner_event, lines 83-88: {} for an empty buffer, the parsed value
\* when json.loads accepts the buffer, {"raw": buffer} otherwise.
FinalToolInput(buffer) ==
    IF buffer = <<>> THEN EmptyDict
    ELSE IF buffer \in ValidJson THEN JsonLoads(buffer)
    ELSE RawInput(buffer)

\* _parse_inner_event, lines 80-104: content_block_stop with an open tool
\* invocation returns the tool_use event and resets the tool state; without
\* one it returns nothing.
ParseContentBlockStop ==
    /\ ParserCall
    /\ IF current_tool_id # None /\ current_tool_name # None
       THEN /\ parserOut' = [type |-> "stream.tool_use",
                             tool_name |-> current_tool_name,
                             tool_id |-> current_tool_id,
                             tool_input |-> FinalToolInput(current_tool_input_json),
                             content_type |-> "text", content |-> None]
            /\ parserFed' = blockFragments
            /\ current_tool_id' = None
            /\ current_tool_name' = None
            /\ current_tool_input_json' = <<>>
       ELSE /\ parserOut' = NoParserEvent
            /\ UNCHANGED <<current_tool_id, current_tool_name,
                           current_tool_input_json, parserFed>>
    /\ UNCHANGED blockFragments

\* _parse_json_event, lines 64-65, and _parse_generic, lines 236-244: a
\* top-level line of type tool_use (with name and input keys) becomes a
\* StreamEvent of type stream.tool_use built from type, content and payload
\* only: tool_name, tool_id and tool_input keep their default None.
ParseTopLevelToolUse(name, text) ==
    /\ ParserCall
    /\ parserOut' = [type |-> "stream.tool_use", tool_name |-> None,
                     tool_id |-> None, tool_input |-> AbsentInput,
                     content_type |-> "text", content |-> None]
    /\ parserFed' = text
    /\ UNCHANGED <<current_tool_id, current_tool_name,
                   current_tool_input_json, blockFragments>>

\* parse_line, lines 36-48: a line that is not JSON becomes an assistant
\* text event whose content is the line.
ParseRawLine ==
    /\ ParserCallOn("text", None)
    /\ parserOut' = [NoParserEvent EXCEPT !.type = "stream.assistant",
                                          !.content_type = "text",
                                          !.content = RawLineText]
    /\ UNCHANGED <<current_tool_id, current_tool_name,
                   current_tool_input_json, parserFed, blockFragments>>

\* parse_line, lines 32-34: an empty or blank line returns None.
ParseEmptyLine ==
    /\ ParserCallOn("empty", None)
    /\ parserOut' = NoParserEvent
    /\ UNCHANGED <<current_tool_id, current_tool_name,
                   current_tool_input_json, parserFed, blockFragments>>

\* parse_line, lines 36-50, and _parse_json_event, line 54: json.loads
\* accepts a number, a string, an array or null; data.get then raises
\* AttributeError, which nothing in parse_line catches.
ParseNonObjectJson(kind) ==
    /\ ParserCallOn(kind, "AttributeError")
    /\ parserOut' = NoParserEvent
    /\ UNCHANGED <<current_tool_id, current_tool_name,
                   current_tool_input_json, parserFed, blockFragments>>

\* _parse_json_event, lines 54-65: an object whose type is an array raises
\* TypeError at the lookup in STREAM_TYPE_MAP (line 64); a stream_event
\* whose event is not an object raises AttributeError (lines 57-60, 72).
ParseMalformedObject(exception) ==
    /\ ParserCallOn("object", exception)
    /\ parserOut' = NoParserEvent
    /\ UNCHANGED <<current_tool_id, current_tool_name,
                   current_tool_input_json, parserFed, blockFragments>>

NextParser ==
    \/ \E id \in ToolIds, name \in ToolNames :
          ParseContentBlockStartToolUse(id, name)
    \/ ParseContentBlockStartText
    \/ \E f \in Fragments : ParseInputJsonDelta(f)
    \/ ParseTextDelta
    \/ ParseContentBlockStop
    \/ \E name \in ToolNames, text \in ValidJson :
          ParseTopLevelToolUse(name, text)
    \/ ParseRawLine
    \/ ParseEmptyLine
    \/ \E kind \in NonObjectJson : ParseNonObjectJson(kind)
    \/ \E exception \in {"AttributeError", "TypeError"} :
          ParseMalformedObject(exception)

\* The complete tool input of a text: its parsed value, or {raw: text} when
\* the text is not JSON (an empty text is the empty input).
CompleteToolInput(text) ==
    IF text = <<>> THEN {EmptyDict}
    ELSE IF text \in ValidJson THEN {JsonLoads(text)}
    ELSE {RawInput(text)}

\* C7: every stream.tool_use event the parser returns, from a content block
\* or from a top-level tool_use line, carries a tool_input that is the
\* complete parsed input or {raw: whole buffer}; it is never absent.
C7_ToolInputComplete ==
    parserOut.type = "stream.tool_use"
        => /\ parserOut.tool_input.kind # "None"
           /\ parserOut.tool_input \in CompleteToolInput(parserFed)

\* C25: for every line (empty, text that is not JSON, a JSON object of any
\* shape, a JSON value that is not an object) parse_line returns zero or one
\* event and never raises; a line that is not JSON yields an assistant text
\* event whose content is the line and leaves the tool state unchanged.
C25_ParseLineNeverRaises ==
    [][ linesParsed' # linesParsed =>
          /\ parserLine'.raised = None
          /\ parserLine'.kind = "empty" => parserOut' = NoParserEvent
          /\ parserLine'.kind = "text" =>
                /\ parserOut'.type = "stream.assistant"
                /\ parserOut'.content = RawLineText
                /\ UNCHANGED <<current_tool_id, current_tool_name,
                               current_tool_input_json>> ]_vars

\* The tool_use event of the open block: its id, its name and the input
\* parsed from the fragments received since its start.
BlockToolUseEvent ==
    [type |-> "stream.tool_use", tool_name |-> current_tool_name,
     tool_id |-> current_tool_id,
     tool_input |-> FinalToolInput(blockFragments),
     content_type |-> "text", content |-> None]

\* C34: between a content_block_start of type tool_use and the next
\* content_block_stop an input_json_delta line emits no event; the
\* content_block_stop emits one stream.tool_use event with the block's id
\* and name and the input parsed from exactly the fragments received since
\* the block's start, in order, and resets the tool state, so that a further
\* content_block_stop emits nothing.
C34_BlockToolUse ==
    [][ /\ (\E f \in Fragments : ParseInputJsonDelta(f)) =>
              /\ parserOut' = NoParserEvent
              /\ UNCHANGED <<current_tool_id, current_tool_name>>
        /\ ParseContentBlockStop =>
              IF current_tool_id # None
              THEN /\ parserOut' = BlockToolUseEvent
                   /\ current_tool_id' = None
                   /\ current_tool_name' = None
                   /\ current_tool_input_json' = <<>>
              ELSE parserOut' = NoParserEvent ]_vars

\* C34 witness: a content_block_stop has emitted the tool_use event of a
\* block whose input came in two fragments, and has reset the tool state.
C34_Witness ==
    /\ linesParsed >= 4
    /\ parserOut.type = "stream.tool_use"
    /\ parserOut.tool_id = "t1"
    /\ parserOut.tool_name = "Bash"
    /\ parserOut.tool_input = JsonLoads(<<"{c", "}">>)
    /\ current_tool_id = None
    /\ current_tool_input_json = <<>>

(***************************************************************************)
(* AgentExecutor._run_agent: the loop over the controller's events         *)
(***************************************************************************)
MAX_REPEATED_BASH_COMMAND == 8

\* The command strings of tool inputs; "" stands for an input without a
\* command (an empty mapping, a mapping with other keys, {raw: ...}).
Commands == {"echo x", "ls", ""}

\* An event as _run_agent reads it: the StreamEvent attributes tool_name and
\* tool_input, and the payload keys it looks up.  None: attribute None or key
\* absent.  An input is given by its command string.
BlockToolUse(name, c) ==
    [type |-> "stream.tool_use", tool_name |-> name, tool_input |-> c,
     payload_tool_name |-> None, payload_tool_input |-> None,
     payload_content_block_input |-> c,
     payload_name |-> None, payload_input |-> None]

TopLevelToolUse(name, c) ==
    [type |-> "stream.tool_use", tool_name |-> None, tool_input |-> None,
     payload_tool_name |-> None, payload_tool_input |-> None,
     payload_content_block_input |-> None,
     payload_name |-> name, payload_input |-> c]

AssistantText ==
    [type |-> "stream.assistant", tool_name |-> None, tool_input |-> None,
     payload_tool_name |-> None, payload_tool_input |-> None,
     payload_content_block_input |-> None,
     payload_name |-> None, payload_input |-> None]

\* What controller.start() can yield between run.started and the end.
AgentEvents ==
    {BlockToolUse(n, c) : n \in ToolNames, c \in Commands}
        \cup {TopLevelToolUse(n, c) : n \in ToolNames, c \in Commands}
        \cup {AssistantText}

\* Python truthiness of an attribute or key holding a string or an input.
Truthy(x) == x # None /\ x # ""

\* Line 540: getattr(event, "tool_name", None) or str(payload.get("tool_name") or "").
ToolNameOf(e) ==
    IF Truthy(e.tool_name) THEN e.tool_name
    ELSE IF Truthy(e.payload_tool_name) THEN e.payload_tool_name
    ELSE ""

\* Lines 541-548: the first truthy of event.tool_input, payload["tool_input"],
\* payload["content_block"]["input"] (default {}), then its command, "" if none.
CommandOf(e) ==
    IF Truthy(e.tool_input) THEN e.tool_input
    ELSE IF Truthy(e.payload_tool_input) THEN e.payload_tool_input
    ELSE IF Truthy(e.payload_content_block_input) THEN e.payload_content_block_input
    ELSE ""

\* The tool name and command the assistant's tool_use line carries, wherever
\* the parser put them.
LineToolName(e) == IF e.tool_name # None THEN e.tool_name ELSE e.payload_name

LineCommand(e) == IF e.tool_input # None THEN e.tool_input ELSE e.payload_input

NoStreak == [command |-> None, count |-> 0]

\* The run of latest tool_use events carrying one Bash command, after e.
StreakAfter(e) ==
    IF e.type # "stream.tool_use" THEN bashStreak
    ELSE IF LineToolName(e) = "Bash" /\ LineCommand(e) # ""
    THEN IF bashStreak.command = LineCommand(e)
         THEN [bashStreak EXCEPT !.count =
                  IF @ < MAX_REPEATED_BASH_COMMAND THEN @ + 1 ELSE @]
         ELSE [command |-> LineCommand(e), count |-> 1]
    ELSE NoStreak

InitAgentVars ==
    /\ last_bash_command = None
    /\ repeated_bash_count = 0
    /\ agentPc = "idle"
    /\ agentTerminated = FALSE
    /\ bashStreak = NoStreak

\* _run_agent, lines 515-530: a new controller and fresh locals for every
\* invocation.
AgentInvoke ==
    /\ UNCHANGED nonAgentVars
    /\ agentPc # "running"
    /\ agentPc' = "running"
    /\ last_bash_command' = None
    /\ repeated_bash_count' = 0
    /\ agentTerminated' = FALSE
    /\ bashStreak' = NoStreak

\* Lines 550-555: the count after a Bash tool_use with a command.
CountAfter(command) ==
    IF command = last_bash_command THEN repeated_bash_count + 1 ELSE 1

\* _run_agent, lines 530-565: one event of the controller is published,
\* yielded and examined by the runaway detector.
AgentProcessEvent(e) ==
    /\ UNCHANGED nonAgentVars
    /\ agentPc = "running"
    /\ bashStreak' = StreakAfter(e)
    /\ IF e.type = "stream.tool_use" /\ ToolNameOf(e) = "Bash" /\ CommandOf(e) # ""
       THEN /\ last_bash_command' = CommandOf(e)
            /\ repeated_bash_count' = CountAfter(CommandOf(e))
            /\ IF CountAfter(CommandOf(e)) >= MAX_REPEATED_BASH_COMMAND
               THEN agentPc' = "runaway" /\ agentTerminated' = TRUE
               ELSE UNCHANGED <<agentPc, agentTerminated>>
       ELSE IF e.type = "stream.tool_use" /\ ToolNameOf(e) = "Bash"
       THEN /\ last_bash_command' = None
            /\ repeated_bash_count' = 0
            /\ UNCHANGED <<agentPc, agentTerminated>>
       ELSE UNCHANGED <<last_bash_command, repeated_bash_count, agentPc,
                        agentTerminated>>

\* Lines 594-608: the controller's events are exhausted, the agent run is
\* recorded as completed.
AgentCompletes ==
    /\ UNCHANGED nonAgentVars
    /\ agentPc = "running"
    /\ agentPc' = "completed"
    /\ UNCHANGED <<last_bash_command, repeated_bash_count, agentTerminated,
                   bashStreak>>

\* Lines 529, 610-615: the 240 s deadline expires; the controller is
\* terminated and the invocation fails.
AgentTimeout ==
    /\ UNCHANGED nonAgentVars
    /\ agentPc = "running"
    /\ agentPc' = "timeout"
    /\ agentTerminated' = TRUE
    /\ UNCHANGED <<last_bash_command, repeated_bash_count, bashStreak>>

NextAgent ==
    \/ AgentInvoke
    \/ \E e \in AgentEvents : AgentProcessEvent(e)
    \/ AgentCompletes
    \/ AgentTimeout

\* C8: once the same Bash command was carried by 8 tool_use events in a row
\* of one invocation, the controller is terminated and the invocation has
\* failed as a runaway loop (so no further event is processed).
C8_RunawayAtEighth ==
    bashStreak.count >= MAX_REPEATED_BASH_COMMAND
        => (agentPc = "runaway" /\ agentTerminated)

\* C40: the runaway failure is raised only when the same Bash command was
\* carried by 8 consecutive tool_use events of the invocation; a tool_use of
\* another tool, or a Bash use with another or an empty command, in between
\* restarts the count.
C40_RunawayOnlyWhenConsecutive ==
    agentPc = "runaway" => bashStreak.count >= MAX_REPEATED_BASH_COMMAND

(***************************************************************************)
(* SessionManager.start_run and branch_run over the runs and events tables *)
(***************************************************************************)
MaxRuns == 3

\* str(uuid.uuid4()) of the n-th run created.
RunId(n) == ToString(n)

\* The ids of the rows of the runs table and of the events table.
RunIds == {runRows[i].id : i \in 1..Len(runRows)}

EventIds == {store[i].id : i \in 1..Len(store)}

\* An Optional[str] event id that is None.
NoEventId == NoEvent.id

\* No branch_run call has been made.
NoBranchCall ==
    [run_id |-> None, from_event_id |-> NoEventId, modified_prompt |-> None,
     result |-> None, new_run |-> None]

InitBranchVars ==
    /\ runRows = <<>>
    /\ registered = {}
    /\ branchCall = NoBranchCall

\* The prompt of the runs started directly, and what branch_run is given as
\* modified_prompt: nothing, the empty string, a text.
OriginalPrompt == "P"

ModifiedPrompts == {None, "", "P2"}

\* RunRepository.create, lines 274-302: the row of a new run.
RunRow(id, prompt, parent, event) ==
    [id |-> id, prompt |-> prompt, parent_run_id |-> parent,
     branch_point_event_id |-> event, status |-> "pending"]

\* The row of the run with the id.
RowOf(id) == runRows[CHOOSE i \in 1..Len(runRows) : runRows[i].id = id]

\* EventBus.publish of a new event of run r, taken as one step: the event
\* gets the run's counter value and is saved.
PublishedEvent(r, t, n, seq) ==
    [id |-> n, run_id |-> r, sequence |-> seq, type |-> t]

\* start_run, lines 251-285: the row is created with the parent arguments as
\* given (ids of existing rows, or None), the initial git snapshot is
\* published, the row becomes running.
StartRun(parent, event) ==
    /\ UNCHANGED nonBranchVars
    /\ Len(runRows) < MaxRuns
    /\ parent \in RunIds \cup {None}
    /\ event \in EventIds \cup {NoEventId}
    /\ UNCHANGED branchCall
    /\ LET id == RunId(Len(runRows) + 1)
       IN /\ runRows' = Append(runRows,
                [RunRow(id, OriginalPrompt, parent, event)
                    EXCEPT !.status = "running"])
          /\ registered' = registered \cup {id}
          /\ store' = Append(store,
                PublishedEvent(id, "git.snapshot", nextEventId + 1, CounterOf(id)))
          /\ sequence_counters' = CounterSet(id, CounterOf(id) + 1)
          /\ nextEventId' = nextEventId + 1

\* branch_run, line 426: prompt = modified_prompt or original_run.prompt.
BranchPrompt(modified_prompt, original) ==
    IF modified_prompt \in {None, ""} THEN original ELSE modified_prompt

\* A branch_run that numbers the events of the new run after those of the
\* run it branches from.
BranchRunSharedCounter(run_id, from_event_id, modified_prompt) ==
    /\ UNCHANGED nonBranchVars
    /\ Len(runRows) < MaxRuns
    /\ run_id \in RunIds
    /\ from_event_id \in EventIds
    /\ LET id == RunId(Len(runRows) + 1)
       IN /\ runRows' = Append(runRows,
                [RunRow(id, BranchPrompt(modified_prompt, RowOf(run_id).prompt),
                        run_id, from_event_id) EXCEPT !.status = "running"])
          /\ registered' = registered \cup {id}
          /\ branchCall' = [run_id |-> run_id, from_event_id |-> from_event_id,
                            modified_prompt |-> modified_prompt,
                            result |-> "returned", new_run |-> id]
          /\ store' = store \o
                <<PublishedEvent(id, "git.snapshot", nextEventId + 1,
                                 CounterOf(run_id)),
                  PublishedEvent(id, "run.branched", nextEventId + 2,
                                 CounterOf(run_id) + 1)>>
          /\ sequence_counters' = CounterSet(run_id, CounterOf(run_id) + 2)
          /\ nextEventId' = nextEventId + 2

\* A branch_run that creates the run row before it looks for the run and the
\* event.
BranchRunRejectedLate(run_id, from_event_id, modified_prompt) ==
    /\ UNCHANGED nonBranchVars
    /\ Len(runRows) < MaxRuns
    /\ run_id \notin RunIds \/ from_event_id \notin EventIds
    /\ runRows' = Append(runRows,
          RunRow(RunId(Len(runRows) + 1), OriginalPrompt, run_id, from_event_id))
    /\ branchCall' = [run_id |-> run_id, from_event_id |-> from_event_id,
                      modified_prompt |-> None,
                      result |-> "raised", new_run |-> None]
    /\ UNCHANGED <<registered, storeVars>>

\* branch_run, lines 415-423: the run or the event does not exist; ValueError
\* is raised to the caller.
BranchRunRejected(run_id, from_event_id, modified_prompt) ==
    /\ UNCHANGED nonBranchVars
    /\ run_id \notin RunIds \/ from_event_id \notin EventIds
    /\ branchCall' = [run_id |-> run_id, from_event_id |-> from_event_id,
                      modified_prompt |-> None,
                      result |-> "raised", new_run |-> None]
    /\ UNCHANGED <<runRows, registered, storeVars>>

\* branch_run, lines 415-447: raises unless the run and the event exist;
\* start_run with the run and the event as parent arguments; run.branched is
\* published on the new run.
BranchRun(run_id, from_event_id, modified_prompt) ==
    /\ UNCHANGED nonBranchVars
    /\ Len(runRows) < MaxRuns
    /\ run_id \in RunIds
    /\ from_event_id \in EventIds
    /\ LET id == RunId(Len(runRows) + 1)
       IN /\ runRows' = Append(runRows,
                [RunRow(id, BranchPrompt(modified_prompt, RowOf(run_id).prompt),
                        run_id, from_event_id) EXCEPT !.status = "running"])
          /\ registered' = registered \cup {id}
          /\ branchCall' = [run_id |-> run_id, from_event_id |-> from_event_id,
                            modified_prompt |-> modified_prompt,
                            result |-> "returned", new_run |-> id]
          /\ store' = store \o
                <<PublishedEvent(id, "git.snapshot", nextEventId + 1, CounterOf(id)),
                  PublishedEvent(id, "run.branched", nextEventId + 2, CounterOf(id) + 1)>>
          /\ sequence_counters' = CounterSet(id, CounterOf(id) + 2)
          /\ nextEventId' = nextEventId + 2

\* Every id a run or an event can have within the bounds.
AllRunIds == {RunId(n) : n \in 1..MaxRuns}

AllEventIds == 1..(2 * MaxRuns)

\* The callers of start_run pass existing ids or None.
NextBranch ==
    \/ \E parent \in AllRunIds \cup {None}, event \in AllEventIds \cup {NoEventId} :
          StartRun(parent, event)
    \/ \E run_id \in AllRunIds, from_event_id \in AllEventIds,
          modified_prompt \in ModifiedPrompts :
          BranchRun(run_id, from_event_id, modified_prompt)
    \/ \E run_id \in AllRunIds, from_event_id \in AllEventIds,
          modified_prompt \in ModifiedPrompts :
          BranchRunRejected(run_id, from_event_id, modified_prompt)

\* The event with the given id belongs to the given run.
EventOfRun(event, run) ==
    \E i \in 1..Len(store) : store[i].id = event /\ store[i].run_id = run

\* C6: every run with a parent_run_id has a branch_point_event_id, and that
\* id is the id of a persisted event whose run_id is the parent_run_id.
C6_BranchIntegrity ==
    \A i \in 1..Len(runRows) :
        runRows[i].parent_run_id # None
            => /\ runRows[i].branch_point_event_id # NoEventId
               /\ EventOfRun(runRows[i].branch_point_event_id,
                             runRows[i].parent_run_id)

\* A branch_run call ends in this step with the given result.
BranchCallEnds(result) ==
    branchCall' # branchCall /\ branchCall'.result = result

\* C23: branch_run with a run id or an event id that does not exist raises
\* before any state change: no run row is created, no controller or git
\* tracker is registered, no event is published; and a call that returns was
\* given a run and an event that exist.
C23_RejectedBranchChangesNothing ==
    [][ /\ BranchCallEnds("raised") =>
              UNCHANGED <<runRows, registered, storeVars>>
        /\ BranchCallEnds("returned") =>
              /\ branchCall'.run_id \in RunIds
              /\ branchCall'.from_event_id \in EventIds
        /\ (/\ branchCall' # branchCall
            /\ \/ branchCall'.run_id \notin RunIds
               \/ branchCall'.from_event_id \notin EventIds)
              => branchCall'.result = "raised" ]_vars

\* A call was rejected for its event id while its run exists and has events.
C23_Witness ==
    /\ branchCall.result = "raised"
    /\ branchCall.run_id \in RunIds
    /\ branchCall.from_event_id \notin EventIds
    /\ \E i \in 1..Len(store) : store[i].run_id = branchCall.run_id

\* The events of run r in the table, in the order of the table.
EventsIn(table, r) == SelectSeq(table, LAMBDA e : e.run_id = r)

EventsOf(r) == EventsIn(store, r)

\* The counter of run r in the counters of the bus.
CounterIn(counters, r) == IF r \in DOMAIN counters THEN counters[r] ELSE 0

\* A modified prompt is given: not None and not the empty string.
PromptGiven(p) == p \notin {None, ""}

\* C24: branch_run(R, e, p) with an existing run R and event e creates a run
\* R' with parent_run_id = R, branch_point_event_id = e and prompt p when a
\* modified prompt is given (the prompt of R otherwise) and publishes
\* run.branched for R'; the events of R' are numbered from 0 independently
\* of R, and the events and the sequence counter of R are unchanged.
C24_BranchCreatesRun ==
    [][ BranchCallEnds("returned") =>
          LET R == branchCall'.run_id
              new == branchCall'.new_run
              p == branchCall'.modified_prompt
          IN /\ new \notin RunIds
             /\ Len(runRows') = Len(runRows) + 1
             /\ runRows'[Len(runRows')].id = new
             /\ runRows'[Len(runRows')].parent_run_id = R
             /\ runRows'[Len(runRows')].branch_point_event_id =
                    branchCall'.from_event_id
             /\ runRows'[Len(runRows')].prompt =
                    IF PromptGiven(p) THEN p ELSE RowOf(R).prompt
             /\ \A i \in 1..Len(runRows) : runRows'[i] = runRows[i]
             /\ EventsIn(store', R) = EventsIn(store, R)
             /\ CounterIn(sequence_counters', R) =
                    CounterIn(sequence_counters, R)
             /\ \A i \in 1..Len(EventsIn(store', new)) :
                    EventsIn(store', new)[i].sequence = i - 1
             /\ \E i \in 1..Len(EventsIn(store', new)) :
                    EventsIn(store', new)[i].type = "run.branched"
             /\ CounterIn(sequence_counters', new) =
                    Len(EventsIn(store', new)) ]_vars

\* A run with events was branched with a modified prompt, and the new run
\* has its own events 0 and 1.
C24_Witness ==
    /\ branchCall.result = "returned"
    /\ branchCall.modified_prompt = "P2"
    /\ RowOf(branchCall.new_run).prompt = "P2"
    /\ Len(EventsOf(branchCall.new_run)) = 2
    /\ CounterOf(branchCall.run_id) >= 1

(***************************************************************************)
(* One run under SessionManager: start_run, stream_events, pause_run,      *)
(* resume_run and abort_run over the run's PTYController and subprocess.   *)
(* A step runs a task from one suspension point to the next; a database    *)
(* write takes effect when it is posted to the connection.                 *)
(***************************************************************************)
MaxLines == 1
MaxCalls == 2

TheRun == "R"

\* The events the stream parser returns for the lines of the subprocess, by
\* what _extract_result_usage reads: the event type, payload["type"], whether
\* payload["usage"] is a mapping, and its token counts.
StdoutEvents ==
    { [type |-> "stream.result", payload_type |-> "result",
       usage_is_dict |-> TRUE, input_tokens |-> 1, output_tokens |-> 2],
      [type |-> "stream.result", payload_type |-> "result",
       usage_is_dict |-> FALSE, input_tokens |-> 0, output_tokens |-> 0],
      [type |-> "stream.assistant", payload_type |-> "assistant",
       usage_is_dict |-> TRUE, input_tokens |-> 1, output_tokens |-> 1],
      [type |-> "stream.tool_result", payload_type |-> "tool_result",
       usage_is_dict |-> FALSE, input_tokens |-> 0, output_tokens |-> 0] }

\* An event built by the manager or the controller: its payload has no usage.
PlainEvent(t) ==
    [type |-> t, payload_type |-> None, usage_is_dict |-> FALSE,
     input_tokens |-> 0, output_tokens |-> 0]

\* PTYController.start, lines 82-99: run.completed iff the return code is 0.
EndEvent(rc) ==
    IF rc = 0 THEN PlainEvent("run.completed") ELSE PlainEvent("run.failed")

\* SessionManager._extract_result_usage, lines 197-216.
ExtractResultUsage(e) ==
    IF e.type # "stream.result" THEN <<0, 0>>
    ELSE IF e.payload_type # "result" THEN <<0, 0>>
    ELSE IF ~e.usage_is_dict THEN <<0, 0>>
    ELSE <<e.input_tokens, e.output_tokens>>

\* RunRepository.update_metrics, lines 356-374: the totals are added to.
UpdateMetrics(tokens_in, tokens_out) ==
    [tokens_in |-> run_tokens.tokens_in + tokens_in,
     tokens_out |-> run_tokens.tokens_out + tokens_out]

\* EventBus.publish(e) of an event of the run, taken as one step: the event
\* gets its id and the run's counter value and is saved.
Publish(e) ==
    /\ store' = Append(store,
          [id |-> nextEventId + 1, run_id |-> TheRun,
           sequence |-> CounterOf(TheRun), type |-> e.type,
           payload_type |-> e.payload_type, usage_is_dict |-> e.usage_is_dict,
           input_tokens |-> e.input_tokens, output_tokens |-> e.output_tokens])
    /\ sequence_counters' = CounterSet(TheRun, CounterOf(TheRun) + 1)
    /\ nextEventId' = nextEventId + 1

\* Process.returncode is None: a subprocess was spawned and has not exited.
Running == proc \in {"live", "stopped"}

InitRunVars ==
    /\ run_status = "absent"
    /\ run_tokens = [tokens_in |-> 0, tokens_out |-> 0]
    /\ active_runs = FALSE
    /\ proc = "absent"
    /\ return_code = 0
    /\ sigterm = FALSE
    /\ ctl_paused = FALSE
    /\ pause_event = TRUE
    /\ ctl_terminated = FALSE
    /\ streamPc = "idle"
    /\ curEvent = PlainEvent(None)
    /\ linesRead = 0
    /\ pausePc = "idle"
    /\ resumePc = "idle"
    /\ abortPc = "idle"
    /\ termPc = [c \in {"abort", "stream"} |-> "idle"]
    /\ callsMade = 0

controllerVars == <<ctl_paused, pause_event, ctl_terminated>>

procVars == <<proc, return_code, sigterm>>

callVars == <<pausePc, resumePc, abortPc, callsMade>>

streamVars == <<streamPc, curEvent, linesRead>>

\* start_run, lines 257-263: RunRepository.create inserts the row as pending.
StartRunCreate ==
    /\ UNCHANGED nonRunVars
    /\ run_status = "absent"
    /\ run_status' = "pending"
    /\ UNCHANGED <<storeVars, run_tokens, active_runs, procVars,
                   controllerVars, streamVars, callVars, termPc>>

\* start_run, lines 270-283: the initial git snapshot is published, the
\* controller is registered and the row becomes running.
StartRunRegister ==
    /\ UNCHANGED nonRunVars
    /\ run_status = "pending"
    /\ Publish(PlainEvent("git.snapshot"))
    /\ active_runs' = TRUE
    /\ run_status' = "running"
    /\ UNCHANGED <<run_tokens, procVars, controllerVars, streamVars,
                   callVars, termPc>>

\* The subprocess ends by itself with return code rc.
ProcessExits(rc) ==
    /\ UNCHANGED nonRunVars
    /\ proc = "live"
    /\ proc' = "exited"
    /\ return_code' = rc
    /\ sigterm' = FALSE
    /\ UNCHANGED <<storeVars, run_status, run_tokens, active_runs,
                   controllerVars, streamVars, callVars, termPc>>

\* The subprocess, not stopped, acts on the SIGTERM of Process.terminate().
ProcessDiesOfSigterm ==
    /\ UNCHANGED nonRunVars
    /\ proc = "live" /\ sigterm
    /\ proc' = "exited"
    /\ return_code' = -15
    /\ sigterm' = FALSE
    /\ UNCHANGED <<storeVars, run_status, run_tokens, active_runs,
                   controllerVars, streamVars, callVars, termPc>>

\* stream_events posts the publish of event e and awaits it (lines 303, 318).
PublishAndAwait(e) ==
    /\ Publish(e)
    /\ curEvent' = e
    /\ streamPc' = "publish"

\* The task driving stream_events suspends at the await named pc.
Suspend(pc) ==
    /\ streamPc' = pc
    /\ UNCHANGED <<storeVars, curEvent>>

\* PTYController.start, lines 79-101: after the read loop, wait for the
\* subprocess (no suspension when it has exited) and yield the end event,
\* which stream_events publishes.
LeaveReadLoop ==
    IF proc = "exited"
    THEN PublishAndAwait(EndEvent(return_code))
    ELSE Suspend("wait_exit")

\* _stream_output, lines 135-144: an open gate does not suspend the reader;
\* a terminated controller leaves the loop; otherwise a line is awaited.
EnterReadLoop ==
    IF ~pause_event THEN Suspend("gate")
    ELSE IF ctl_terminated THEN LeaveReadLoop
    ELSE Suspend("readline")

\* stream_events, lines 315-324, after the token accounting of curEvent.
AfterMetrics ==
    IF curEvent.type = "stream.tool_result" THEN Suspend("snapshot")
    ELSE IF curEvent.type \in {"run.completed", "run.failed"}
    THEN Suspend("finish_metrics")
    ELSE EnterReadLoop

\* stream_events, lines 289-293: the controller is looked up, the run row is
\* awaited.
StreamEventsCall ==
    /\ UNCHANGED nonRunVars
    /\ active_runs /\ streamPc = "idle"
    /\ Suspend("get_run")
    /\ UNCHANGED <<run_status, run_tokens, active_runs, procVars,
                   controllerVars, linesRead, callVars, termPc>>

\* PTYController.start, lines 46-64, and stream_events, line 303: the
\* subprocess is spawned, run.started is yielded and its publish awaited.
StreamStart ==
    /\ UNCHANGED nonRunVars
    /\ streamPc = "get_run"
    /\ proc' = "live"
    /\ PublishAndAwait(PlainEvent("run.started"))
    /\ UNCHANGED <<run_status, run_tokens, active_runs, return_code, sigterm,
                   controllerVars, linesRead, callVars, termPc>>

\* stream_events, line 304: publish returned, the event is yielded to the
\* consumer.
StreamPublishReturns ==
    /\ UNCHANGED nonRunVars
    /\ streamPc = "publish"
    /\ Suspend("yield")
    /\ UNCHANGED <<run_status, run_tokens, active_runs, procVars,
                   controllerVars, linesRead, callVars, termPc>>

\* stream_events, lines 306-319: the consumer asks for the next event; the
\* usage of a result event is added to the run's totals.
StreamConsumerNext ==
    /\ UNCHANGED nonRunVars
    /\ streamPc = "yield"
    /\ LET usage == ExtractResultUsage(curEvent)
       IN IF curEvent.type = "git.snapshot"
          THEN EnterReadLoop /\ UNCHANGED run_tokens
          ELSE IF usage[1] # 0 \/ usage[2] # 0
          THEN /\ run_tokens' = UpdateMetrics(usage[1], usage[2])
               /\ Suspend("metrics")
          ELSE AfterMetrics /\ UNCHANGED run_tokens
    /\ UNCHANGED <<run_status, active_runs, procVars, controllerVars,
                   linesRead, callVars, termPc>>

\* stream_events, line 313: update_metrics returned.
StreamMetricsReturns ==
    /\ UNCHANGED nonRunVars
    /\ streamPc = "metrics"
    /\ AfterMetrics
    /\ UNCHANGED <<run_status, run_tokens, active_runs, procVars,
                   controllerVars, linesRead, callVars, termPc>>

\* stream_events, lines 317-318: the git snapshot was taken, its publish is
\* awaited.
StreamSnapshotTaken ==
    /\ UNCHANGED nonRunVars
    /\ streamPc = "snapshot"
    /\ PublishAndAwait(PlainEvent("git.snapshot"))
    /\ UNCHANGED <<run_status, run_tokens, active_runs, procVars,
                   controllerVars, linesRead, callVars, termPc>>

\* stream_events, lines 326-328: git_tracker.snapshot() raises; the run is
\* written failed.
StreamSnapshotRaises ==
    /\ UNCHANGED nonRunVars
    /\ streamPc = "snapshot"
    /\ run_status' = "failed"
    /\ Suspend("fail_status")
    /\ UNCHANGED <<run_tokens, active_runs, procVars, controllerVars,
                   linesRead, callVars, termPc>>

\* _stream_output, lines 137-140: the reader that waited on the gate runs
\* again; it does not look at the gate a second time.
StreamGateReleased ==
    /\ UNCHANGED nonRunVars
    /\ streamPc = "gate_released"
    /\ IF ctl_terminated THEN LeaveReadLoop ELSE Suspend("readline")
    /\ UNCHANGED <<run_status, run_tokens, active_runs, procVars,
                   controllerVars, linesRead, callVars, termPc>>

\* _stream_output, lines 144-156: readline returns a line (written by the
\* subprocess before it stopped or exited), the parser's event is yielded
\* and stream_events awaits its publish.
StreamReadLine(e) ==
    /\ UNCHANGED nonRunVars
    /\ streamPc = "readline"
    /\ linesRead < MaxLines
    /\ linesRead' = linesRead + 1
    /\ PublishAndAwait(e)
    /\ UNCHANGED <<run_status, run_tokens, active_runs, procVars,
                   controllerVars, callVars, termPc>>

\* _stream_output, lines 152-156, and stream_events, lines 326-328: readline
\* returns a line that is JSON but not an object; parse_line raises
\* (data.get on a non-mapping, stream_parser.py:54), the error leaves
\* _stream_output and PTYController.start, and stream_events writes the run
\* failed.
StreamParseLineRaises ==
    /\ UNCHANGED nonRunVars
    /\ streamPc = "readline"
    /\ linesRead < MaxLines
    /\ linesRead' = linesRead + 1
    /\ run_status' = "failed"
    /\ Suspend("start_raised")
    /\ UNCHANGED <<run_tokens, active_runs, procVars, controllerVars,
                   callVars, termPc>>

\* _stream_output, lines 148-150: readline returns b"" once the subprocess
\* has exited.
StreamReadEOF ==
    /\ UNCHANGED nonRunVars
    /\ streamPc = "readline"
    /\ proc = "exited"
    /\ LeaveReadLoop
    /\ UNCHANGED <<run_status, run_tokens, active_runs, procVars,
                   controllerVars, linesRead, callVars, termPc>>

\* PTYController.start, line 79: process.wait() returns.
StreamProcessWaited ==
    /\ UNCHANGED nonRunVars
    /\ streamPc = "wait_exit"
    /\ proc = "exited"
    /\ LeaveReadLoop
    /\ UNCHANGED <<run_status, run_tokens, active_runs, procVars,
                   controllerVars, linesRead, callVars, termPc>>

\* stream_events, lines 323-324: the duration was written, the run is
\* written completed.
StreamFinishStatus ==
    /\ UNCHANGED nonRunVars
    /\ streamPc = "finish_metrics"
    /\ run_status' = "completed"
    /\ Suspend("finish_status")
    /\ UNCHANGED <<run_tokens, active_runs, procVars, controllerVars,
                   linesRead, callVars, termPc>>

\* stream_events, lines 329-332: the status write returned; the controller
\* is removed from _active_runs.
StreamFinally ==
    /\ UNCHANGED nonRunVars
    /\ streamPc \in {"finish_status", "fail_status", "start_raised"}
    /\ active_runs' = FALSE
    /\ Suspend("done")
    /\ UNCHANGED <<run_status, run_tokens, procVars, controllerVars,
                   linesRead, callVars, termPc>>

\* The consumer stops iterating at an event it was given: GeneratorExit is
\* raised at the yield of stream_events (line 304 or 319) and at the yield of
\* PTYController.start (line 64, 71 or 101); only the finally clause runs.
StreamConsumerCloses ==
    /\ UNCHANGED nonRunVars
    /\ streamPc = "yield"
    /\ active_runs' = FALSE
    /\ Suspend("closed")
    /\ UNCHANGED <<run_status, run_tokens, procVars, controllerVars,
                   linesRead, callVars, termPc>>

\* asyncio.Event.set(): a reader waiting on the gate is made runnable.
GateOpened == IF streamPc = "gate" THEN "gate_released" ELSE streamPc

\* PTYController.terminate, lines 195-200, up to its first suspension, for
\* the caller c: the flag is set, the gate opened and, when the subprocess
\* has not exited, SIGTERM is sent and its exit awaited.
TerminateBegins(c) ==
    /\ ctl_terminated' = TRUE
    /\ pause_event' = TRUE
    /\ sigterm' = (sigterm \/ Running)
    /\ termPc' = [termPc EXCEPT ![c] =
          IF Running THEN "wait"
          ELSE IF proc = "absent" THEN "noop" ELSE "returned"]
    /\ UNCHANGED <<proc, return_code, ctl_paused>>

\* The awaits of the read loop, inside the try of PTYController.start
\* (lines 69-76).
ReadLoopAwaits == {"gate", "gate_released", "readline"}

\* The other awaits of the task: in stream_events, and line 79 of
\* PTYController.start.
OtherAwaits == {"get_run", "publish", "metrics", "snapshot", "wait_exit",
                "finish_metrics", "finish_status", "fail_status",
                "start_raised"}

\* The task is cancelled while the read loop awaits: CancelledError is caught
\* at line 74 and terminate() is called; when the subprocess has exited it
\* returns at once, the error leaves stream_events and the finally clause
\* runs.
StreamCancelledInReadLoop ==
    /\ UNCHANGED nonRunVars
    /\ streamPc \in ReadLoopAwaits
    /\ TerminateBegins("stream")
    /\ IF Running
       THEN streamPc' = "cancel_terminate" /\ UNCHANGED active_runs
       ELSE streamPc' = "cancelled" /\ active_runs' = FALSE
    /\ UNCHANGED <<storeVars, run_status, run_tokens, curEvent, linesRead,
                   callVars>>

\* The task is cancelled at another await: CancelledError is raised outside
\* the try of PTYController.start and is not an Exception; only the finally
\* clause of stream_events runs.
StreamCancelledElsewhere ==
    /\ UNCHANGED nonRunVars
    /\ streamPc \in OtherAwaits
    /\ streamPc' = "cancelled"
    /\ active_runs' = FALSE
    /\ UNCHANGED <<storeVars, run_status, run_tokens, procVars,
                   controllerVars, curEvent, linesRead, callVars, termPc>>

\* terminate, lines 201-206: the 5 s wait expires, the subprocess is killed
\* and reaped.
TerminateKills(c) ==
    /\ UNCHANGED nonRunVars
    /\ termPc[c] = "wait"
    /\ Running
    /\ proc' = "exited"
    /\ return_code' = -9
    /\ sigterm' = FALSE
    /\ UNCHANGED <<storeVars, run_status, run_tokens, active_runs,
                   controllerVars, streamVars, callVars, termPc>>

\* PTYController.start, lines 75-76: terminate() returned, CancelledError is
\* raised again and the finally clause of stream_events runs.
StreamCancelTerminateReturns ==
    /\ UNCHANGED nonRunVars
    /\ streamPc = "cancel_terminate"
    /\ proc = "exited"
    /\ termPc' = [termPc EXCEPT !["stream"] = "returned"]
    /\ streamPc' = "cancelled"
    /\ active_runs' = FALSE
    /\ UNCHANGED <<storeVars, run_status, run_tokens, procVars,
                   controllerVars, curEvent, linesRead, callVars>>

\* pause_run, lines 336-341, with PTYController.pause (no suspension in it):
\* a subprocess that has not exited is stopped behind a closed gate; the
\* run is written paused.
PauseRun ==
    /\ UNCHANGED nonRunVars
    /\ active_runs /\ pausePc = "idle" /\ callsMade < MaxCalls
    /\ IF Running /\ ~ctl_paused
       THEN /\ ctl_paused' = TRUE
            /\ pause_event' = FALSE
            /\ proc' = "stopped"
       ELSE UNCHANGED <<ctl_paused, pause_event, proc>>
    /\ run_status' = "paused"
    /\ pausePc' = "publish"
    /\ callsMade' = callsMade + 1
    /\ UNCHANGED <<storeVars, run_tokens, active_runs, return_code, sigterm,
                   ctl_terminated, streamVars, resumePc, abortPc, termPc>>

\* pause_run, lines 343-350: run.paused is published.
PauseRunPublish ==
    /\ UNCHANGED nonRunVars
    /\ pausePc = "publish"
    /\ Publish(PlainEvent("run.paused"))
    /\ pausePc' = "idle"
    /\ UNCHANGED <<run_status, run_tokens, active_runs, procVars,
                   controllerVars, streamVars, resumePc, abortPc, callsMade,
                   termPc>>

\* resume_run, lines 354-359, with PTYController.resume: a paused controller
\* continues the subprocess and opens the gate; the run is written running.
ResumeRun ==
    /\ UNCHANGED nonRunVars
    /\ active_runs /\ resumePc = "idle" /\ callsMade < MaxCalls
    /\ IF proc # "absent" /\ ctl_paused
       THEN /\ ctl_paused' = FALSE
            /\ pause_event' = TRUE
            /\ proc' = IF proc = "stopped" THEN "live" ELSE proc
            /\ streamPc' = GateOpened
       ELSE UNCHANGED <<ctl_paused, pause_event, proc, streamPc>>
    /\ run_status' = "running"
    /\ resumePc' = "publish"
    /\ callsMade' = callsMade + 1
    /\ UNCHANGED <<storeVars, run_tokens, active_runs, return_code, sigterm,
                   ctl_terminated, curEvent, linesRead, pausePc, abortPc,
                   termPc>>

\* resume_run, lines 361-368: run.resumed is published.
ResumeRunPublish ==
    /\ UNCHANGED nonRunVars
    /\ resumePc = "publish"
    /\ Publish(PlainEvent("run.resumed"))
    /\ resumePc' = "idle"
    /\ UNCHANGED <<run_status, run_tokens, active_runs, procVars,
                   controllerVars, streamVars, pausePc, abortPc, callsMade,
                   termPc>>

\* abort_run, lines 389-394: terminate() is called; when the subprocess is
\* absent or has exited it returns at once and the run is written failed.
AbortRun ==
    /\ UNCHANGED nonRunVars
    /\ active_runs /\ abortPc = "idle"
    /\ TerminateBegins("abort")
    /\ streamPc' = GateOpened
    /\ IF Running
       THEN abortPc' = "terminate" /\ UNCHANGED run_status
       ELSE abortPc' = "publish" /\ run_status' = "failed"
    /\ UNCHANGED <<storeVars, run_tokens, active_runs, curEvent, linesRead,
                   pausePc, resumePc, callsMade>>

\* abort_run, line 394: terminate() returned after the subprocess exited;
\* the run is written failed.
AbortTerminateReturns ==
    /\ UNCHANGED nonRunVars
    /\ abortPc = "terminate"
    /\ proc = "exited"
    /\ termPc' = [termPc EXCEPT !["abort"] = "returned"]
    /\ run_status' = "failed"
    /\ abortPc' = "publish"
    /\ UNCHANGED <<storeVars, run_tokens, active_runs, procVars,
                   controllerVars, streamVars, pausePc, resumePc, callsMade>>

\* abort_run, lines 396-406: intervention.abort is published and the
\* controller removed from _active_runs.
AbortPublish ==
    /\ UNCHANGED nonRunVars
    /\ abortPc = "publish"
    /\ Publish(PlainEvent("intervention.abort"))
    /\ active_runs' = FALSE
    /\ abortPc' = "done"
    /\ UNCHANGED <<run_status, run_tokens, procVars, controllerVars,
                   streamVars, pausePc, resumePc, callsMade, termPc>>

NextRun ==
    \/ StartRunCreate
    \/ StartRunRegister
    \/ \E rc \in {0, 1} : ProcessExits(rc)
    \/ ProcessDiesOfSigterm
    \/ StreamEventsCall
    \/ StreamStart
    \/ StreamPublishReturns
    \/ StreamConsumerNext
    \/ StreamMetricsReturns
    \/ StreamSnapshotTaken
    \/ StreamSnapshotRaises
    \/ StreamGateReleased
    \/ \E e \in StdoutEvents : StreamReadLine(e)
    \/ StreamParseLineRaises
    \/ StreamReadEOF
    \/ StreamProcessWaited
    \/ StreamFinishStatus
    \/ StreamFinally
    \/ StreamConsumerCloses
    \/ StreamCancelledInReadLoop
    \/ StreamCancelledElsewhere
    \/ \E c \in {"abort", "stream"} : TerminateKills(c)
    \/ StreamCancelTerminateReturns
    \/ PauseRun
    \/ PauseRunPublish
    \/ ResumeRun
    \/ ResumeRunPublish
    \/ AbortRun
    \/ AbortTerminateReturns
    \/ AbortPublish

\* The usage the claim counts for a persisted event: that of a stream.result
\* event whose payload type is "result" and whose usage is a mapping.
ResultTokens(e) ==
    IF e.type = "stream.result" /\ e.payload_type = "result" /\ e.usage_is_dict
    THEN <<e.input_tokens, e.output_tokens>>
    ELSE <<0, 0>>

RECURSIVE SumOver(_, _)
SumOver(events, k) ==
    IF events = <<>> THEN 0
    ELSE ResultTokens(Head(events))[k] + SumOver(Tail(events), k)

\* C4: the run's stored tokens_in and tokens_out are the sums of the
\* input_tokens and output_tokens of the run's persisted result events,
\* in every state in which stream_events is not between the publish of an
\* event and the token accounting that follows its yield.
C4_TokenAccounting ==
    streamPc \notin {"publish", "yield"}
        => /\ run_tokens.tokens_in = SumOver(store, 1)
           /\ run_tokens.tokens_out = SumOver(store, 2)

\* The status changes of pending -> running -> (paused <-> running)* ->
\* completed | failed, a paused run being allowed to end either way.
AllowedTransitions ==
    { <<"absent", "pending">>, <<"pending", "running">>,
      <<"running", "paused">>, <<"paused", "running">>,
      <<"running", "completed">>, <<"running", "failed">>,
      <<"paused", "completed">>, <<"paused", "failed">> }

\* C5: every change of the run's stored status is one of the allowed
\* transitions; a status of completed or failed never changes again.
C5_StatusTransitions ==
    [][run_status' # run_status
          => <<run_status, run_status'>> \in AllowedTransitions]_vars

\* C9: once the task consuming stream_events has been cancelled and the
\* cancellation has left stream_events, the controller's terminate() has run
\* unless the subprocess is not running.
C9_CancelTerminates ==
    streamPc = "cancelled" => (ctl_terminated \/ ~Running)

\* C10: from the call of terminate() on, the pause gate is open and no reader
\* is blocked on it, and a terminate() that waited for the subprocess returns
\* with the subprocess exited.
C10_TerminateReleases ==
    /\ ctl_terminated => pause_event
    /\ ctl_terminated => streamPc # "gate"
    /\ \A c \in DOMAIN termPc : termPc[c] = "returned" => proc = "exited"

\* C11: while the controller is paused (pause() returned, no resume() or
\* terminate() since) the read loop reads no line from stdout and yields no
\* event, wherever the reader was when pause() was called.
C11_PausedReadsNothing ==
    [][(ctl_paused /\ ~ctl_terminated) => linesRead' = linesRead]_vars

\* The persisted events that PTYController.start yielded, in order (every
\* event it yields is published by stream_events before anything else runs).
YieldedByStart(e) ==
    e.type \in {"run.started", "run.completed", "run.failed"}
                  \cup {x.type : x \in StdoutEvents}

TerminalTypes == {"run.completed", "run.failed"}

\* The call of PTYController.start has ended without being cancelled:
\* its generator is exhausted or an error left it.
StartEnded == streamPc \in {"finish_metrics", "finish_status", "start_raised"}

\* C12: the sequence yielded by a call of start() that ended without being
\* cancelled begins with the only run.started event and ends with the only
\* terminal event, which is run.completed iff the return code is 0.
C12_StartedThenTerminal ==
    StartEnded =>
        LET y == SelectSeq(store, YieldedByStart)
        IN /\ Len(y) >= 2
           /\ y[1].type = "run.started"
           /\ y[Len(y)].type \in TerminalTypes
           /\ y[Len(y)].type = "run.completed" <=> return_code = 0
           /\ \A i \in 2..Len(y) : y[i].type # "run.started"
           /\ \A i \in 1..(Len(y) - 1) : y[i].type \notin TerminalTypes

\* The controller's terminal event of the type is among the run's events.
TerminalPublished(type) ==
    \E i \in 1..Len(store) : store[i].type = type

\* C38: when stream_events has finished, the run's stored status agrees
\* with the controller's terminal event: it is completed only if that event
\* was run.completed, and a run whose terminal event is run.failed is stored
\* as failed.
C38_StatusAgreesWithTerminalEvent ==
    streamPc = "done" =>
        /\ run_status = "completed" => TerminalPublished("run.completed")
        /\ TerminalPublished("run.failed") => run_status = "failed"

\* No pause_run, resume_run or abort_run call is in progress.
NoCallInProgress ==
    /\ pausePc = "idle"
    /\ resumePc = "idle"
    /\ abortPc \in {"idle", "done"}

\* C39: whenever no pause_run, resume_run or abort_run call is in progress
\* for an active run, the stored status is paused iff the controller reports
\* is_paused, and the controller reports is_paused iff its pause gate is
\* closed, for every order of the calls.
C39_PausedAgrees ==
    (active_runs /\ NoCallInProgress) =>
        /\ run_status = "paused" <=> ctl_paused
        /\ ctl_paused <=> ~pause_event

(***************************************************************************)
(* AgentExecutor.execute_pattern: one pattern execution, its agent         *)
(* invocations taken as a whole, and provide_human_input.                  *)
(***************************************************************************)
MaxIterations == 2

\* The patterns executed: the pattern type, which agent id of the config
\* resolves to no agent, human_involvement, max_iterations, and whether the
\* caller passed an on_checkpoint callback.
AllPatterns ==
    [type : {"solo", "loop", "panel", "bogus"},
     missing : {"none", "solo", "generator", "critic", "panelist",
                "synthesizer", "both"},
     human_involvement : {"autonomous", "checkpoints"},
     max_iterations : 1..MaxIterations,
     on_checkpoint : BOOLEAN]

\* The agent ids a pattern of each type refers to.
RolesOf(type) ==
    CASE type = "solo" -> {"solo"}
      [] type = "loop" -> {"generator", "critic"}
      [] type = "panel" -> {"panelist", "synthesizer"}
      [] OTHER -> {}

\* Only a loop reads human_involvement, max_iterations and on_checkpoint.
Patterns ==
    {p \in AllPatterns :
        /\ p.missing \in RolesOf(p.type) \cup {"none"}
                         \cup (IF p.type = "panel" THEN {"both"} ELSE {})
        /\ p.type # "loop" =>
              /\ p.human_involvement = "autonomous"
              /\ p.max_iterations = 1
              /\ ~p.on_checkpoint}

\* Texts are sequences of words.  The outputs an agent can end with.
Outputs == { <<"APPROVED">>, <<"Looks", "good">>, <<"unacceptable">>,
             <<"needs", "work">> }

\* str.lower() on a word.
Lower(w) ==
    CASE w = "APPROVED" -> "approved"
      [] w = "Looks" -> "looks"
      [] OTHER -> w

LowerText(t) == [i \in DOMAIN t |-> Lower(t[i])]

\* The word k occurs in the word w as a substring.
WordHas(w, k) == w = k \/ <<w, k>> \in {<<"unacceptable", "acceptable">>}

\* `phrase in text` of Python for a phrase of whole words.
Contains(text, phrase) ==
    \E o \in 0..(Len(text) - Len(phrase)) :
        \A j \in 1..Len(phrase) : WordHas(text[o + j], phrase[j])

\* _execute_loop, lines 320-323: the verdict looked for in the critic's
\* lowercased output.
ApprovalPhrases == {<<"approved">>, <<"looks", "good">>, <<"acceptable">>}

Approves(output) ==
    \E phrase \in ApprovalPhrases : Contains(LowerText(output), phrase)

\* The messages of the failures.
TimeoutMessage == "Agent exceeded 240s runtime limit and was aborted."

RunawayMessage == "Runaway loop detected: repeated Bash command echo x 8 times. Aborted."

StderrText == "claude: boom"

\* How an agent invocation fails: the subprocess ends with an error, the
\* deadline expires, the runaway guard fires.
FailureKinds == {"process_failed", "timeout", "runaway"}

\* What an on_checkpoint callback returns.
Decisions == {"continue", "stop", "modify:"}

HumanText == <<"human", "text">>

RequestText == <<"request">>

\* A text and where it comes from.
Text(source, text) == [source |-> source, text |-> text]

NoRun == [status |-> "absent", error_message |-> None]

NoPattern ==
    [type |-> None, missing |-> "none", human_involvement |-> "autonomous",
     max_iterations |-> 1, on_checkpoint |-> FALSE]

InitPatternVars ==
    /\ pattern = NoPattern
    /\ execPc = "idle"
    /\ patRun = NoRun
    /\ active_executions = FALSE
    /\ state = [current_iteration |-> 0, results |-> <<>>,
                should_stop |-> FALSE, awaiting_human |-> FALSE,
                human_decision |-> None]
    /\ agent_runs = <<>>
    /\ patEvents = <<>>
    /\ curRole = None
    /\ current_input = Text("request", RequestText)
    /\ provided = [at |-> None, result |-> FALSE]

\* An event published on the run: by execute_pattern (level "pattern") or by
\* _run_agent with the agent context in its payload (level "agent").
PatternEvent(type, error) == [type |-> type, level |-> "pattern", error |-> error]

AgentLevelEvent(type) == [type |-> type, level |-> "agent", error |-> None]

\* The execution moves to pc.
Goto(pc) ==
    /\ execPc' = pc
    /\ UNCHANGED <<agent_runs, patEvents, curRole>>

\* An event is published on the run and yielded; the execution is at pc.
Emit(pc, event) ==
    /\ execPc' = pc
    /\ patEvents' = Append(patEvents, event)
    /\ UNCHANGED <<agent_runs, curRole>>

\* _run_agent, lines 482-509: the agent-run row is created, the agent start
\* event is published and yielded, the row becomes running.
Begin(role, iteration, input) ==
    /\ execPc' = "agent"
    /\ curRole' = role
    /\ agent_runs' = Append(agent_runs,
          [role |-> role, iteration |-> iteration, input_text |-> input,
           status |-> "running", error_message |-> None])
    /\ patEvents' = Append(patEvents, AgentLevelEvent("stream.system"))

\* execute_pattern, lines 154-157: the run is written completed.
Completed == [status |-> "completed", error_message |-> None]

\* execute_pattern, lines 172-175: the run is written failed with str(e).
Failed(message) == [status |-> "failed", error_message |-> message]

\* execute_pattern, lines 98-119: the run row is created and written
\* running, the state is registered, the publish of run.started is awaited.
ExecutePattern(p) ==
    /\ UNCHANGED nonPatternVars
    /\ execPc = "idle"
    /\ pattern' = p
    /\ patRun' = [status |-> "running", error_message |-> None]
    /\ active_executions' = TRUE
    /\ Goto("publish_start")
    /\ UNCHANGED <<state, current_input, provided>>

\* execute_pattern, lines 134-135: run.started is published and yielded.
StartPublished ==
    /\ UNCHANGED nonPatternVars
    /\ execPc = "publish_start"
    /\ Emit("yield_start", PatternEvent("run.started", None))
    /\ UNCHANGED <<pattern, patRun, active_executions, state, current_input,
                   provided>>

\* execute_pattern, line 134: the publish of run.started raises (the store
\* write fails); the error leaves execute_pattern before its try statement.
StartPublishRaises ==
    /\ UNCHANGED nonPatternVars
    /\ execPc = "publish_start"
    /\ Goto("left")
    /\ UNCHANGED <<pattern, patRun, active_executions, state, current_input,
                   provided>>

\* execute_pattern, line 135: the consumer stops iterating at run.started;
\* GeneratorExit is raised at the yield, before the try statement.
ConsumerAbandonsFirst ==
    /\ UNCHANGED nonPatternVars
    /\ execPc = "yield_start"
    /\ Goto("left")
    /\ UNCHANGED <<pattern, patRun, active_executions, state, current_input,
                   provided>>

\* execute_pattern, lines 137-152, with the head of _execute_solo (lines
\* 197-205), _execute_loop (224-243) and _execute_panel (343-349): the
\* pattern type is converted, the agents are looked up, the first agent is
\* invoked.
PatternDispatch ==
    /\ UNCHANGED nonPatternVars
    /\ execPc = "yield_start"
    /\ IF pattern.type = "bogus"
       THEN Goto("fail_memory") /\ patRun' = Failed("'bogus' is not a valid PatternType")
       ELSE IF pattern.type = "solo"
       THEN IF pattern.missing = "solo"
            THEN Goto("fail_memory") /\ patRun' = Failed("Agent not found")
            ELSE Begin("solo", 0, current_input) /\ UNCHANGED patRun
       ELSE IF pattern.type = "loop"
       THEN IF pattern.missing = "generator"
            THEN Goto("fail_memory") /\ patRun' = Failed("Generator agent not found")
            ELSE IF pattern.missing = "critic"
            THEN Goto("fail_memory") /\ patRun' = Failed("Critic agent not found")
            ELSE Begin("generator", 0, current_input) /\ UNCHANGED patRun
       ELSE IF pattern.missing = "both"
       THEN Goto("memory") /\ patRun' = Completed
       ELSE IF pattern.missing = "panelist"
       THEN Begin("synthesizer", 0, Text("synthesis", RequestText))
            /\ UNCHANGED patRun
       ELSE Begin("panelist", 0, Text("panel", RequestText))
            /\ UNCHANGED patRun
    /\ UNCHANGED <<pattern, active_executions, state, current_input, provided>>

LastRow == agent_runs[Len(agent_runs)]

LastResult == state.results[Len(state.results)]

\* _run_agent, lines 527-608: the agent's stream ends with exit code 0; the
\* controller's run.completed is republished with the agent context, the
\* agent-run row is written completed and the result is recorded.
AgentSucceeds(output) ==
    /\ UNCHANGED nonPatternVars
    /\ execPc = "agent"
    /\ execPc' = "agent_done"
    /\ patEvents' = Append(patEvents, AgentLevelEvent("run.completed"))
    /\ agent_runs' = [agent_runs EXCEPT ![Len(agent_runs)].status = "completed"]
    /\ state' = [state EXCEPT !.results =
          Append(@, [role |-> curRole, iteration |-> LastRow.iteration,
                     output |-> output, success |-> TRUE])]
    /\ UNCHANGED <<pattern, patRun, active_executions, curRole, current_input,
                   provided>>

\* The error _run_agent's handler records for each way an invocation fails:
\* lines 589-595 (stderr of an observed run.failed), 553-557 (runaway loop),
\* 612-616 (deadline).
RecordedMessage(kind) ==
    CASE kind = "process_failed" -> StderrText
      [] kind = "runaway" -> RunawayMessage
      [] kind = "timeout" -> TimeoutMessage

\* _run_agent, lines 610-625: the handler rebinds its local name e for a
\* TimeoutError and then executes a bare raise, which raises the exception
\* being handled: the TimeoutError, whose str() is the empty string.
SurfacedMessage(kind) ==
    IF kind = "timeout" THEN "" ELSE RecordedMessage(kind)

\* _run_agent, lines 610-625: the invocation fails; the agent-run row is
\* written failed, a failed result is recorded, the error is raised again.
\* Only an observed process failure has published an agent-level run.failed.
AgentFails(kind) ==
    /\ UNCHANGED nonPatternVars
    /\ execPc = "agent"
    /\ execPc' = "agent_raised"
    /\ patEvents' = IF kind = "process_failed"
                    THEN Append(patEvents, AgentLevelEvent("run.failed"))
                    ELSE patEvents
    /\ agent_runs' = [agent_runs EXCEPT
          ![Len(agent_runs)].status = "failed",
          ![Len(agent_runs)].error_message = RecordedMessage(kind)]
    /\ state' = [state EXCEPT !.results =
          Append(@, [role |-> curRole, iteration |-> LastRow.iteration,
                     output |-> <<kind>>, success |-> FALSE])]
    /\ UNCHANGED <<pattern, patRun, active_executions, curRole, current_input,
                   provided>>

\* execute_pattern, lines 172-175: the error raised by _run_agent reaches the
\* handler, which writes the run failed with str(e).
AgentFailureSurfaces ==
    /\ UNCHANGED nonPatternVars
    /\ execPc = "agent_raised"
    /\ Goto("fail_memory")
    /\ patRun' = Failed(SurfacedMessage(LastResult.output[1]))
    /\ UNCHANGED <<pattern, active_executions, state, current_input, provided>>

\* _execute_loop, line 326: the feedback built from the critic's output.
Feedback(critic_output) == Text("critic", critic_output)

\* A loop that starts the next iteration with the input of the previous one.
IterationStartStale(i, input) ==
    IF pattern.human_involvement = "checkpoints" /\ pattern.on_checkpoint
    THEN Emit("checkpoint", PatternEvent("intervention.pause", None))
    ELSE Begin("generator", i, current_input)

\* _execute_loop, lines 244-273, for iteration i > 0 with the input named:
\* the checkpoint when the pattern asks for it and a callback was passed,
\* else the generator.
IterationStart(i, input) ==
    IF pattern.human_involvement = "checkpoints" /\ pattern.on_checkpoint
    THEN Emit("checkpoint", PatternEvent("intervention.pause", None))
    ELSE Begin("generator", i, input)

\* A loop that runs one iteration more than max_iterations.
LoopGoesOnOneMore(iteration) == iteration < pattern.max_iterations

\* _execute_loop, line 244: for iteration in range(max_iterations) has a
\* next iteration after the one named.
LoopGoesOn(iteration) == iteration + 1 < pattern.max_iterations

\* The code after an agent invocation that succeeded: _execute_solo ends;
\* _execute_loop runs the critic (lines 297-315) or reads the verdict (lines
\* 318-326); _execute_panel runs the synthesizer (lines 373-393) or ends.
PatternContinues ==
    /\ UNCHANGED nonPatternVars
    /\ execPc = "agent_done"
    /\ IF curRole = "generator"
       THEN /\ Begin("critic", state.current_iteration,
                     Text("generated", LastResult.output))
            /\ UNCHANGED <<patRun, state, current_input>>
       ELSE IF curRole = "critic"
                 /\ ~Approves(LastResult.output)
                 /\ LoopGoesOn(state.current_iteration)
       THEN /\ current_input' = Feedback(LastResult.output)
            /\ state' = [state EXCEPT !.current_iteration = @ + 1]
            /\ IterationStart(state.current_iteration + 1,
                              Feedback(LastResult.output))
            /\ UNCHANGED patRun
       ELSE IF curRole = "critic"
       THEN /\ current_input' = IF Approves(LastResult.output)
                                THEN current_input
                                ELSE Feedback(LastResult.output)
            /\ Goto("memory")
            /\ patRun' = Completed
            /\ UNCHANGED state
       ELSE IF curRole = "panelist" /\ pattern.missing # "synthesizer"
       THEN /\ Begin("synthesizer", 0, Text("synthesis", RequestText))
            /\ UNCHANGED <<patRun, state, current_input>>
       ELSE /\ Goto("memory")
            /\ patRun' = Completed
            /\ UNCHANGED <<state, current_input>>
    /\ UNCHANGED <<pattern, active_executions, provided>>

\* _execute_loop, lines 264-273: the on_checkpoint callback returns.
CheckpointDecided(decision) ==
    /\ UNCHANGED nonPatternVars
    /\ execPc = "checkpoint"
    /\ IF decision = "stop"
       THEN /\ state' = [state EXCEPT !.should_stop = TRUE]
            /\ Goto("memory")
            /\ patRun' = Completed
            /\ UNCHANGED current_input
       ELSE IF decision = "modify:"
       THEN /\ current_input' = Text("human", HumanText)
            /\ Begin("generator", state.current_iteration,
                     Text("human", HumanText))
            /\ UNCHANGED <<patRun, state>>
       ELSE /\ Begin("generator", state.current_iteration, current_input)
            /\ UNCHANGED <<patRun, state, current_input>>
    /\ UNCHANGED <<pattern, active_executions, provided>>

\* execute_pattern, lines 158-170: run memory is persisted, run.completed is
\* published and yielded.
CompletionPublished ==
    /\ UNCHANGED nonPatternVars
    /\ execPc = "memory"
    /\ Emit("yield_completed", PatternEvent("run.completed", None))
    /\ UNCHANGED <<pattern, patRun, active_executions, state, current_input,
                   provided>>

StoreError == "store error"

\* execute_pattern, lines 158-175: persist_run_memory or the publish of
\* run.completed raises after the run was written completed; the handler
\* writes the run failed.
CompletionRaises ==
    /\ UNCHANGED nonPatternVars
    /\ execPc = "memory"
    /\ Goto("fail_memory")
    /\ patRun' = Failed(StoreError)
    /\ UNCHANGED <<pattern, active_executions, state, current_input, provided>>

\* execute_pattern, lines 176-185: run memory is persisted, run.failed is
\* published with str(e) and yielded.
FailurePublished ==
    /\ UNCHANGED nonPatternVars
    /\ execPc = "fail_memory"
    /\ Emit("yield_failed", PatternEvent("run.failed", patRun.error_message))
    /\ UNCHANGED <<pattern, patRun, active_executions, state, current_input,
                   provided>>

\* execute_pattern, lines 176-188: persist_run_memory or the publish of
\* run.failed raises inside the handler; the finally clause runs.
FailureRaises ==
    /\ UNCHANGED nonPatternVars
    /\ execPc = "fail_memory"
    /\ Goto("ended")
    /\ active_executions' = FALSE
    /\ UNCHANGED <<pattern, patRun, state, current_input, provided>>

\* execute_pattern, lines 170 and 185-188: the consumer resumes or closes the
\* generator after the terminal event; the finally clause runs.
PatternEnds ==
    /\ UNCHANGED nonPatternVars
    /\ execPc \in {"yield_completed", "yield_failed"}
    /\ Goto("ended")
    /\ active_executions' = FALSE
    /\ UNCHANGED <<pattern, patRun, state, current_input, provided>>

\* execute_pattern, lines 137-188: the consumer is cancelled or closes the
\* generator while an agent or a checkpoint is in progress; neither
\* CancelledError nor GeneratorExit is an Exception, only the finally clause
\* runs.
ConsumerAbandons ==
    /\ UNCHANGED nonPatternVars
    /\ execPc \in {"agent", "checkpoint"}
    /\ Goto("ended")
    /\ active_executions' = FALSE
    /\ UNCHANGED <<pattern, patRun, state, current_input, provided>>

\* provide_human_input, lines 761-774, called for the run while an agent
\* runs, while the loop waits at a checkpoint, or after the execution ended;
\* provided records where the execution was and what the call returned.
ProvideHumanInput(decision) ==
    /\ UNCHANGED nonPatternVars
    /\ execPc \in {"agent", "checkpoint", "ended"}
    /\ IF active_executions /\ state.awaiting_human
       THEN /\ state' = [state EXCEPT !.human_decision = decision,
                                      !.awaiting_human = FALSE]
            /\ provided' = [at |-> execPc, result |-> TRUE]
       ELSE /\ provided' = [at |-> execPc, result |-> FALSE]
            /\ UNCHANGED state
    /\ UNCHANGED <<pattern, execPc, patRun, active_executions, agent_runs,
                   patEvents, curRole, current_input>>

NextPattern ==
    \/ \E p \in Patterns : ExecutePattern(p)
    \/ StartPublished
    \/ StartPublishRaises
    \/ ConsumerAbandonsFirst
    \/ PatternDispatch
    \/ \E output \in Outputs : AgentSucceeds(output)
    \/ \E kind \in FailureKinds : AgentFails(kind)
    \/ AgentFailureSurfaces
    \/ PatternContinues
    \/ \E decision \in Decisions : CheckpointDecided(decision)
    \/ CompletionPublished
    \/ CompletionRaises
    \/ FailurePublished
    \/ FailureRaises
    \/ PatternEnds
    \/ ConsumerAbandons
    \/ \E decision \in Decisions : ProvideHumanInput(decision)

\* The execution is over: it left execute_pattern before the try statement
\* ("left") or through the finally clause ("ended").
ExecutionOver == execPc \in {"left", "ended"}

\* C18: once the execution of a run has ended for any reason (completion,
\* failure, a failing publish of the start event, the consumer cancelling or
\* abandoning the stream at any yield, the first included), the run id is not
\* in the active-execution registry.
C18_RegistryOnlyWhileRunning == ExecutionOver => ~active_executions

\* The pattern refers to an agent the store does not have, or its type is
\* not a pattern type.
InvalidPattern == pattern.type = "bogus" \/ pattern.missing # "none"

\* execute_pattern has handed its terminal event to the caller.
TerminalYielded == execPc \in {"yield_completed", "yield_failed"}

\* C19: executing a pattern that refers to a missing agent, or whose type is
\* invalid, fails and leaves no partial state: no run row, no agent-run row
\* and no published event exist for the attempt.
C19_NoPartialState ==
    (InvalidPattern /\ TerminalYielded) =>
        /\ execPc = "yield_failed"
        /\ patRun = NoRun
        /\ agent_runs = <<>>
        /\ patEvents = <<>>

StartedPublished ==
    \E i \in 1..Len(patEvents) :
        patEvents[i] = PatternEvent("run.started", None)

\* The positions of the pattern-level terminal events of the run.
PatternTerminals ==
    {i \in 1..Len(patEvents) :
        patEvents[i].level = "pattern" /\ patEvents[i].type \in TerminalTypes}

AllSucceeded == \A i \in 1..Len(state.results) : state.results[i].success

\* The patterns execute_pattern rejects: an invalid type, a missing solo
\* agent, generator or critic (a panel skips the agents it does not find).
ValidationFails == InvalidPattern /\ pattern.type # "panel"

ProcessFailureObserved ==
    \E i \in 1..Len(patEvents) : patEvents[i] = AgentLevelEvent("run.failed")

\* C13: a pattern execution that published run.started ends with exactly one
\* pattern-level terminal event, the last event of its run: run.completed
\* with stored status completed when every agent invocation succeeded,
\* run.failed with stored status failed and the failure message (the stderr
\* of the subprocess when an agent's run.failed was observed) otherwise; no
\* agent is invoked after a failed invocation.
C13_OneTerminalEvent ==
    (ExecutionOver /\ StartedPublished) =>
        /\ Cardinality(PatternTerminals) = 1
        /\ PatternTerminals = {Len(patEvents)}
        /\ LET last == patEvents[Len(patEvents)] IN
             IF AllSucceeded /\ ~ValidationFails
             THEN last.type = "run.completed" /\ patRun.status = "completed"
             ELSE /\ last.type = "run.failed"
                  /\ patRun.status = "failed"
                  /\ last.error = patRun.error_message
                  /\ ProcessFailureObserved => last.error = StderrText
        /\ \A i \in 1..(Len(state.results) - 1) : state.results[i].success

\* The same for the executions that published a terminal event and whose
\* store did not fail: it holds in every state of SpecPattern.
TerminalWhenUndisturbed ==
    (ExecutionOver /\ StartedPublished /\ patRun.error_message # StoreError
       /\ PatternTerminals # {}) => C13_OneTerminalEvent

\* The deadline of the last agent invocation expired and the failure has
\* reached execute_pattern's handler.
TimeoutSurfaced ==
    /\ state.results # <<>>
    /\ LastResult.output = <<"timeout">>
    /\ execPc \in {"fail_memory", "yield_failed", "ended"}

\* C14: when the deadline of an agent invocation expires, the agent run is
\* recorded failed and the failure that surfaces to the pattern run carries
\* the fixed message "Agent exceeded 240s runtime limit and was aborted.":
\* the run's stored error message and its run.failed event carry it.
C14_TimeoutMessage ==
    TimeoutSurfaced =>
        /\ LastRow.status = "failed"
        /\ LastRow.error_message = TimeoutMessage
        /\ patRun.status = "failed"
        /\ patRun.error_message = TimeoutMessage
        /\ \A i \in PatternTerminals : patEvents[i].error = TimeoutMessage

\* The positions of the results of the critics that ran to their end.
Verdicts ==
    {k \in 1..Len(state.results) :
        state.results[k].role = "critic" /\ state.results[k].success}

\* The loop stopped on the approval: no agent was invoked after the critic
\* of position k.
StopsAfter(k) ==
    /\ Len(agent_runs) = k
    /\ state.results[k].iteration = 0 => Len(agent_runs) = 2

\* The agent run that follows the critic of position k, if there is one, is
\* the generator of the next iteration.
NextGenerator(k) ==
    Len(agent_runs) > k =>
        /\ agent_runs[k + 1].role = "generator"
        /\ agent_runs[k + 1].iteration = state.results[k].iteration + 1

\* The original statement of C15: in a loop, a critic output that, lowercased,
\* contains approved, looks good or acceptable stops the loop after that
\* iteration with no further generator or critic (2 agent runs when it
\* happens at iteration 0); otherwise the critic's text becomes the feedback
\* of the generator of the next iteration.
C15_CriticFeedbackAlways ==
    \A k \in Verdicts :
        IF Approves(state.results[k].output)
        THEN StopsAfter(k)
        ELSE /\ NextGenerator(k)
             /\ Len(agent_runs) > k =>
                  agent_runs[k + 1].input_text =
                      Feedback(state.results[k].output)

\* C15 as the code has it: the same, except that the feedback of the next
\* generator is the text of a checkpoint decision modify:<text> when the
\* pattern has checkpoints and the callback returned one.
C15_CriticFeedback ==
    \A k \in Verdicts :
        IF Approves(state.results[k].output)
        THEN StopsAfter(k)
        ELSE /\ NextGenerator(k)
             /\ Len(agent_runs) > k =>
                  \/ agent_runs[k + 1].input_text =
                         Feedback(state.results[k].output)
                  \/ /\ pattern.human_involvement = "checkpoints"
                     /\ pattern.on_checkpoint
                     /\ agent_runs[k + 1].input_text = Text("human", HumanText)

\* A loop went on after a critic that did not approve, with the critic's text
\* as feedback, and a later critic approved and stopped it.
C15_Witness ==
    /\ \E k \in Verdicts :
          /\ ~Approves(state.results[k].output)
          /\ Len(agent_runs) > k
          /\ agent_runs[k + 1].input_text = Feedback(state.results[k].output)
    /\ \E k \in Verdicts : Approves(state.results[k].output)
    /\ execPc = "ended"

\* The positions of the intervention.pause events of the run.
Pauses ==
    {i \in 1..Len(patEvents) : patEvents[i].type = "intervention.pause"}

\* The positions of the agent runs of the generators of iterations i > 0.
LaterGenerators ==
    {k \in 1..Len(agent_runs) :
        agent_runs[k].role = "generator" /\ agent_runs[k].iteration > 0}

\* C16: in a loop whose pattern has human_involvement = checkpoints, an
\* intervention.pause is published before the generator of every iteration
\* i > 0 and the loop waits for a decision; stop ends the loop with no further
\* agent invocation, modify:<text> makes <text> the generator's input; there
\* is no checkpoint at iteration 0.
C16_CheckpointEveryIteration ==
    (pattern.type = "loop" /\ pattern.human_involvement = "checkpoints") =>
        /\ Cardinality(Pauses) >= Cardinality(LaterGenerators)
        /\ Cardinality(Pauses) <= state.current_iteration
        /\ state.should_stop =>
              /\ execPc \notin {"agent", "agent_done", "agent_raised"}
              /\ Cardinality(Pauses) = Cardinality(LaterGenerators) + 1
        /\ \A k \in LaterGenerators :
              agent_runs[k].input_text.source \in {"critic", "human"}

\* C17: provide_human_input called while the loop is suspended at a
\* checkpoint, awaiting the human decision, returns true (and records the
\* decision); called when no execution awaits a decision it returns false.
C17_InputAtCheckpointAccepted ==
    /\ provided.at = "checkpoint" => provided.result
    /\ provided.at \in {"agent", "ended"} => ~provided.result

\* The positions of the agent runs with the role.
RunsOf(role) == {k \in 1..Len(agent_runs) : agent_runs[k].role = role}

\* C36: a loop execution invokes the generator at most max_iterations times
\* and the critic at most max_iterations times, every iteration running the
\* generator and then the critic, and does not go on after max_iterations
\* iterations, whatever the critic says.
C36_LoopBounded ==
    pattern.type = "loop" =>
        /\ Cardinality(RunsOf("generator")) <= pattern.max_iterations
        /\ Cardinality(RunsOf("critic")) <= pattern.max_iterations
        /\ state.current_iteration < pattern.max_iterations
        /\ \A k \in 1..Len(agent_runs) :
              /\ agent_runs[k].role =
                    IF k % 2 = 1 THEN "generator" ELSE "critic"
              /\ agent_runs[k].iteration = (k - 1) \div 2

\* C36 witness: a loop of max_iterations = MaxIterations whose critic never
\* approved has ended after MaxIterations generators and critics.
C36_Witness ==
    /\ pattern.type = "loop"
    /\ pattern.max_iterations = MaxIterations
    /\ execPc = "ended"
    /\ patRun.status = "completed"
    /\ Cardinality(RunsOf("generator")) = MaxIterations
    /\ Cardinality(RunsOf("critic")) = MaxIterations
    /\ \A k \in Verdicts : ~Approves(state.results[k].output)

(***************************************************************************)
(* WebSocketManager and websocket_endpoint (web/websocket/handler.py)      *)
(*                                                                         *)
(* A connection is one WebSocket object: it is registered by the one       *)
(* websocket_endpoint call that serves it.  broadcast_event is what the    *)
(* application subscribes to the bus (web/app.py); calls of it overlap     *)
(* when publishers do.                                                     *)
(***************************************************************************)
NumConnections == 2
MaxBroadcasts == 2

Connections == 1..NumConnections

Broadcasts == 1..MaxBroadcasts

WsRuns == {"r1", "r2"}

\* _run_connections.get(r, set()): a run without a bucket has no connections.
Bucket(run_connections_, r) ==
    IF r \in DOMAIN run_connections_ THEN run_connections_[r] ELSE {}

\* The connections registered under a run other than r.
OtherBuckets(run_connections_, r) ==
    UNION {run_connections_[q] : q \in DOMAIN run_connections_ \ {r}}

NoBroadcast ==
    [pc |-> "idle", run |-> None, connections |-> {}, pending |-> {},
     attempts |-> [c \in Connections |-> 0], dead |-> {},
     global_then |-> {}, bucket_then |-> {}, others_then |-> {},
     cleaned_then |-> {}]

InitWsVars ==
    /\ global_connections = {}
    /\ run_connections = <<>>
    /\ endpoint = [c \in Connections |->
                      [pc |-> "new", run_id |-> None, subscribed |-> None]]
    /\ broadcasts = [b \in Broadcasts |-> NoBroadcast]
    /\ cleaned = {}

\* WebSocketManager.connect, lines 27-33, after accept() has returned.
Registered(registry, c, r) ==
    IF r # None
    THEN [registry EXCEPT !.runs =
            IF r \in DOMAIN registry.runs
            THEN [registry.runs EXCEPT ![r] = @ \cup {c}]
            ELSE [q \in DOMAIN registry.runs \cup {r} |->
                    IF q = r THEN {c} ELSE registry.runs[q]]]
    ELSE [registry EXCEPT !.global = @ \cup {c}]

\* WebSocketManager.disconnect, lines 37-43.
Disconnected(registry, c, r) ==
    IF r # None /\ r \in DOMAIN registry.runs
    THEN [registry EXCEPT !.runs =
            IF registry.runs[r] \ {c} = {}
            THEN [q \in DOMAIN registry.runs \ {r} |-> registry.runs[q]]
            ELSE [registry.runs EXCEPT ![r] = @ \ {c}]]
    ELSE [registry EXCEPT !.global = @ \ {c}]

Registry == [global |-> global_connections, runs |-> run_connections]

SetRegistry(registry) ==
    /\ global_connections' = registry.global
    /\ run_connections' = registry.runs

\* websocket_endpoint, lines 107-116: connect accepts the socket (line 25)
\* and registers it; the connected message is sent.  Connections are
\* numbered in the order in which they are opened.
EndpointConnect(c, r) ==
    /\ UNCHANGED nonWsVars
    /\ endpoint[c].pc = "new"
    /\ IF c = 1 THEN TRUE ELSE endpoint[c - 1].pc # "new"
    /\ SetRegistry(Registered(Registry, c, r))
    /\ endpoint' = [endpoint EXCEPT ![c] = [@ EXCEPT !.pc = "open",
                                                      !.run_id = r]]
    /\ UNCHANGED <<broadcasts, cleaned>>

\* websocket_endpoint, lines 128-142, on a subscribe message naming r2:
\* disconnect(websocket, run_id) removes the connection (131);
\* connect(websocket, new_run_id) calls websocket.accept() on a socket that
\* is already accepted, which raises RuntimeError before the registration
\* of lines 27-33 (132, 25); line 133 is not reached; except Exception
\* breaks the loop (135-137) and the finally clause calls disconnect with
\* the old run_id (142).
EndpointSubscribe(c, r2) ==
    /\ UNCHANGED nonWsVars
    /\ endpoint[c].pc = "open"
    /\ SetRegistry(Disconnected(Disconnected(Registry, c, endpoint[c].run_id),
                                c, endpoint[c].run_id))
    /\ endpoint' = [endpoint EXCEPT ![c] = [pc |-> "closed", run_id |-> None,
                                            subscribed |-> r2]]
    /\ UNCHANGED <<broadcasts, cleaned>>

\* websocket_endpoint, lines 121, 135-142: the peer closes, receive_json
\* raises, the loop breaks and the finally clause disconnects; the local
\* run_id ends with the call.
EndpointCloses(c) ==
    /\ UNCHANGED nonWsVars
    /\ endpoint[c].pc = "open"
    /\ SetRegistry(Disconnected(Registry, c, endpoint[c].run_id))
    /\ endpoint' = [endpoint EXCEPT ![c] = [@ EXCEPT !.pc = "closed",
                                                      !.run_id = None]]
    /\ UNCHANGED <<broadcasts, cleaned>>

\* What a broadcast_event call records when it takes its snapshot.  The
\* calls are numbered in the order in which they take it.
Snapshot(r, connections) ==
    [NoBroadcast EXCEPT !.pc = "sending", !.run = r,
                        !.connections = connections,
                        !.pending = connections,
                        !.global_then = global_connections,
                        !.bucket_then = Bucket(run_connections, r),
                        !.others_then = OtherBuckets(run_connections, r),
                        !.cleaned_then = cleaned]

\* A broadcast that collects the connections of every run.
BroadcastSnapshotAll(b, r) ==
    /\ UNCHANGED nonWsVars
    /\ broadcasts[b].pc = "idle"
    /\ IF b = 1 THEN TRUE ELSE broadcasts[b - 1].pc # "idle"
    /\ broadcasts' = [broadcasts EXCEPT ![b] =
          Snapshot(r, global_connections
                        \cup UNION {run_connections[q] :
                                      q \in DOMAIN run_connections})]
    /\ UNCHANGED <<global_connections, run_connections, endpoint, cleaned>>

\* broadcast_event, lines 54-59: under the lock, a copy of the global set
\* and the connections of the bucket of the event's run.
BroadcastSnapshot(b, r) ==
    /\ UNCHANGED nonWsVars
    /\ broadcasts[b].pc = "idle"
    /\ IF b = 1 THEN TRUE ELSE broadcasts[b - 1].pc # "idle"
    /\ broadcasts' = [broadcasts EXCEPT ![b] =
          Snapshot(r, global_connections \cup Bucket(run_connections, r))]
    /\ UNCHANGED <<global_connections, run_connections, endpoint, cleaned>>

\* _send_to_all, lines 79-81: send_text to the next connection returns.
SendSucceeds(b, c) ==
    /\ UNCHANGED nonWsVars
    /\ broadcasts[b].pc = "sending"
    /\ c \in broadcasts[b].pending
    /\ endpoint[c].pc = "open"
    /\ broadcasts' = [broadcasts EXCEPT ![b] =
          [@ EXCEPT !.pending = @ \ {c},
                    !.attempts = [@ EXCEPT ![c] = @ + 1]]]
    /\ UNCHANGED <<global_connections, run_connections, endpoint, cleaned>>

\* _send_to_all, lines 79-83: send_text raises and the connection is put
\* on dead_connections; the loop goes on.
SendFails(b, c) ==
    /\ UNCHANGED nonWsVars
    /\ broadcasts[b].pc = "sending"
    /\ c \in broadcasts[b].pending
    /\ broadcasts' = [broadcasts EXCEPT ![b] =
          [@ EXCEPT !.pending = @ \ {c},
                    !.attempts = [@ EXCEPT ![c] = @ + 1],
                    !.dead = @ \cup {c}]]
    /\ UNCHANGED <<global_connections, run_connections, endpoint, cleaned>>

\* A cleanup that discards the dead connections from the global set only.
BroadcastCleanupGlobalOnly(b) ==
    /\ UNCHANGED nonWsVars
    /\ broadcasts[b].pc = "sending"
    /\ broadcasts[b].pending = {}
    /\ global_connections' = global_connections \ broadcasts[b].dead
    /\ cleaned' = cleaned \cup broadcasts[b].dead
    /\ broadcasts' = [broadcasts EXCEPT ![b].pc = "done"]
    /\ UNCHANGED <<run_connections, endpoint>>

\* _send_to_all, lines 85-91: after the loop, under the lock, every dead
\* connection is discarded from the global set and from every bucket;
\* broadcast_event returns.
BroadcastCleanup(b) ==
    /\ UNCHANGED nonWsVars
    /\ broadcasts[b].pc = "sending"
    /\ broadcasts[b].pending = {}
    /\ global_connections' = global_connections \ broadcasts[b].dead
    /\ run_connections' = [q \in DOMAIN run_connections |->
                             run_connections[q] \ broadcasts[b].dead]
    /\ cleaned' = cleaned \cup broadcasts[b].dead
    /\ broadcasts' = [broadcasts EXCEPT ![b].pc = "done"]
    /\ UNCHANGED endpoint

NextWs ==
    \/ \E c \in Connections, r \in WsRuns \cup {None} : EndpointConnect(c, r)
    \/ \E c \in Connections, r2 \in WsRuns : EndpointSubscribe(c, r2)
    \/ \E c \in Connections : EndpointCloses(c)
    \/ \E b \in Broadcasts, r \in WsRuns : BroadcastSnapshot(b, r)
    \/ \E b \in Broadcasts, c \in Connections : SendSucceeds(b, c)
    \/ \E b \in Broadcasts, c \in Connections : SendFails(b, c)
    \/ \E b \in Broadcasts : BroadcastCleanup(b)

(***************************************************************************)
(* Claims about the WebSocket manager                                      *)
(***************************************************************************)
\* The connections a broadcast had to send to: those in the global set or
\* in the bucket of its event's run when it took its snapshot.
TargetsThen(b) == broadcasts[b].global_then \cup broadcasts[b].bucket_then

\* C26: broadcast_event(e) sends e to exactly the connections that are in
\* the global set or in the bucket of e's run at broadcast time, once each;
\* a connection registered only for another run is never sent e.
C26_BroadcastTargets ==
    \A b \in Broadcasts, c \in Connections :
        /\ c \notin TargetsThen(b) => broadcasts[b].attempts[c] = 0
        /\ c \in TargetsThen(b) => broadcasts[b].attempts[c] <= 1
        /\ c \in TargetsThen(b) /\ broadcasts[b].pc = "done"
              => broadcasts[b].attempts[c] = 1

\* C26 witness: a finished broadcast that was sent to a global connection
\* while another connection was registered for another run only, and a
\* finished broadcast that was sent to a global connection and to one of
\* its run.
C26_Witness ==
    \E b, other \in Broadcasts :
        /\ broadcasts[b].pc = "done"
        /\ broadcasts[b].global_then # {}
        /\ broadcasts[b].others_then \ TargetsThen(b) # {}
        /\ \A c \in TargetsThen(b) : broadcasts[b].attempts[c] = 1
        /\ broadcasts[other].pc = "done"
        /\ broadcasts[other].global_then # {}
        /\ broadcasts[other].bucket_then # {}
        /\ \A c \in TargetsThen(other) : broadcasts[other].attempts[c] = 1

\* The connection is in the global set or in some bucket.
IsRegistered(c) ==
    \/ c \in global_connections
    \/ \E q \in DOMAIN run_connections : c \in run_connections[q]

\* C27: after a broadcast in which the send to c failed, c is in neither
\* the global set nor any bucket and no later broadcast targets it; the
\* other connections of the broadcast are still sent to.
C27_DeadConnectionRemoved ==
    /\ \A c \in cleaned : ~IsRegistered(c)
    /\ \A b \in Broadcasts :
          /\ broadcasts[b].connections \cap broadcasts[b].cleaned_then = {}
          /\ broadcasts[b].pc = "done" =>
                \A c \in broadcasts[b].connections :
                    broadcasts[b].attempts[c] = 1

\* C27 witness: a finished broadcast with a failed send to a connection of
\* a bucket and a send to another connection, and a later broadcast on the
\* same run that finished.
C27_Witness ==
    \E b, later \in Broadcasts :
        /\ broadcasts[b].pc = "done"
        /\ broadcasts[b].dead \cap broadcasts[b].bucket_then # {}
        /\ broadcasts[b].connections \ broadcasts[b].dead # {}
        /\ broadcasts[later].pc = "done"
        /\ broadcasts[later].run = broadcasts[b].run
        /\ broadcasts[b].dead \subseteq broadcasts[later].cleaned_then
        /\ broadcasts[later].connections # {}

\* C28: after the endpoint has processed a subscribe message naming r2, the
\* connection is in the bucket of r2 and in no other, and stays connected.
C28_SubscribeMovesConnection ==
    [][ \A c \in Connections :
          endpoint'[c].subscribed # endpoint[c].subscribed =>
              /\ c \in Bucket(run_connections', endpoint'[c].subscribed)
              /\ c \notin OtherBuckets(run_connections',
                                       endpoint'[c].subscribed)
              /\ endpoint'[c].pc = "open" ]_vars

(***************************************************************************)
(* InteractiveSession (session/interactive.py)                             *)
(*                                                                         *)
(* send_message is an async generator run by a background task of          *)
(* SessionManager.send_interactive_message, which starts one task per      *)
(* message without waiting for the previous one: turns overlap.  A step    *)
(* runs a call from one suspension point to the next.                      *)
(***************************************************************************)
MaxTurns == 3

Turns == 1..MaxTurns

\* InteractiveSession._claude_session_id, assigned once in __init__.
ClaudeSessionId == "uuid"

NoTurn == [pc |-> "idle", turn |-> 0]

\* _current_process is None; a process is named by the call that spawned it.
NoProcess == 0

InitInteractiveVars ==
    /\ is_running = FALSE
    /\ current_process = NoProcess
    /\ turn_count = 0
    /\ sessionPc = "constructed"
    /\ turns = [t \in Turns |-> NoTurn]
    /\ spawned = <<>>
    /\ user_events = <<>>
    /\ live_processes = {}
    /\ interrupted = {}

\* Process.returncode is None for the process in _current_process.
CurrentLive ==
    /\ current_process # NoProcess
    /\ current_process \in live_processes

\* initialize, lines 44-62.
Initialize ==
    /\ UNCHANGED nonInteractiveVars
    /\ sessionPc = "constructed"
    /\ is_running' = TRUE
    /\ sessionPc' = "initialized"
    /\ UNCHANGED <<current_process, turn_count, turns, spawned, user_events,
                   live_processes, interrupted>>

\* The send_message calls are numbered in the order in which they are made.
NextCall(t) ==
    /\ turns[t].pc = "idle"
    /\ IF t = 1 THEN TRUE ELSE turns[t - 1].pc # "idle"

\* send_message, lines 66-67: the session is not running, RuntimeError
\* `Session not running`.
SendMessageRejected(t) ==
    /\ UNCHANGED nonInteractiveVars
    /\ NextCall(t)
    /\ ~is_running
    /\ turns' = [turns EXCEPT ![t].pc = "rejected"]
    /\ UNCHANGED <<is_running, current_process, turn_count, sessionPc,
                   spawned, user_events, live_processes, interrupted>>

\* send_message, lines 66-82: the turn is counted, the user event is
\* yielded and the call waits in on_event, which publishes the event.
SendMessage(t) ==
    /\ UNCHANGED nonInteractiveVars
    /\ NextCall(t)
    /\ is_running
    /\ turn_count' = turn_count + 1
    /\ turns' = [turns EXCEPT ![t] = [pc |-> "user_event",
                                      turn |-> turn_count + 1]]
    /\ user_events' = Append(user_events, t)
    /\ UNCHANGED <<is_running, current_process, sessionPc, spawned,
                   live_processes, interrupted>>

\* _build_command, lines 141-146: the flag depends on _turn_count as it is
\* when the command is built.
SessionFlag(count) == IF count = 1 THEN "--session-id" ELSE "--resume"

\* send_message, lines 84-95: on_event has returned; the command is built
\* and the subprocess is spawned and stored in _current_process.
TurnSpawns(t) ==
    /\ UNCHANGED nonInteractiveVars
    /\ turns[t].pc = "user_event"
    /\ spawned' = Append(spawned, [call |-> t,
                                   flag |-> SessionFlag(turn_count),
                                   id |-> ClaudeSessionId])
    /\ current_process' = t
    /\ live_processes' = live_processes \cup {t}
    /\ turns' = [turns EXCEPT ![t].pc = "streaming"]
    /\ UNCHANGED <<is_running, turn_count, sessionPc, user_events,
                   interrupted>>

\* SessionManager.stop_interactive_response, manager.py lines 627-634: the
\* task of the last message is cancelled while its send_message waits in
\* on_event; the generator is closed before the spawn.
TurnCancelled(t) ==
    /\ UNCHANGED nonInteractiveVars
    /\ turns[t].pc = "user_event"
    /\ IF t = MaxTurns THEN TRUE ELSE turns[t + 1].pc = "idle"
    /\ turns' = [turns EXCEPT ![t].pc = "cancelled"]
    /\ UNCHANGED <<is_running, current_process, turn_count, sessionPc,
                   spawned, user_events, live_processes, interrupted>>

\* The subprocess of a turn exits by itself (its returncode is set).
TurnProcessExits(t) ==
    /\ UNCHANGED nonInteractiveVars
    /\ t \in live_processes
    /\ live_processes' = live_processes \ {t}
    /\ UNCHANGED <<is_running, current_process, turn_count, sessionPc,
                   turns, spawned, user_events, interrupted>>

\* send_message, lines 97-106: the output of the turn's process has ended;
\* the finally clause waits for whatever _current_process holds and
\* clears it.
TurnEnds(t) ==
    /\ UNCHANGED nonInteractiveVars
    /\ turns[t].pc = "streaming"
    /\ t \notin live_processes
    /\ ~CurrentLive
    /\ current_process' = NoProcess
    /\ turns' = [turns EXCEPT ![t].pc = "done"]
    /\ UNCHANGED <<is_running, turn_count, sessionPc, spawned, user_events,
                   live_processes, interrupted>>

\* interrupt_current_response, lines 171-188, with a live process: it is
\* terminated (killed after 2 s) and _current_process is cleared.  Without
\* a live process the call returns False and changes nothing.
InterruptCurrentResponse ==
    /\ UNCHANGED nonInteractiveVars
    /\ CurrentLive
    /\ live_processes' = live_processes \ {current_process}
    /\ interrupted' = interrupted \cup {current_process}
    /\ current_process' = NoProcess
    /\ UNCHANGED <<is_running, turn_count, sessionPc, turns, spawned,
                   user_events>>

\* terminate, lines 156-169: _is_running is cleared; the process in
\* _current_process, if it is live, is terminated (killed after 5 s).
Terminate ==
    /\ UNCHANGED nonInteractiveVars
    /\ sessionPc = "initialized"
    /\ is_running' = FALSE
    /\ sessionPc' = "terminated"
    /\ live_processes' = IF CurrentLive
                         THEN live_processes \ {current_process}
                         ELSE live_processes
    /\ UNCHANGED <<current_process, turn_count, turns, spawned, user_events,
                   interrupted>>

NextInteractive ==
    \/ Initialize
    \/ \E t \in Turns : SendMessageRejected(t)
    \/ \E t \in Turns : SendMessage(t)
    \/ \E t \in Turns : TurnSpawns(t)
    \/ \E t \in Turns : TurnCancelled(t)
    \/ \E t \in Turns : TurnProcessExits(t)
    \/ \E t \in Turns : TurnEnds(t)
    \/ InterruptCurrentResponse
    \/ Terminate

(***************************************************************************)
(* Claims about the interactive session                                    *)
(***************************************************************************)
\* C29: the first subprocess of a session is spawned with --session-id and
\* every later one with --resume, always with the session's one id, also
\* after an interrupted turn; a send_message call emits its user event
\* before it spawns.
C29_SessionIdThenResume ==
    \A i \in 1..Len(spawned) :
        /\ spawned[i].flag = IF i = 1 THEN "--session-id" ELSE "--resume"
        /\ spawned[i].id = ClaudeSessionId
        /\ \E j \in 1..Len(user_events) : user_events[j] = spawned[i].call

\* The call was rejected by send_message.
Rejected(t) == turns[t].pc = "rejected"

\* C30: interrupt_current_response ends only the subprocess of the turn in
\* flight and leaves the session running; terminate marks the session not
\* running and ends every turn in flight; send_message after it fails
\* without spawning and without emitting.
C30_InterruptAndTerminate ==
    /\ sessionPc = "initialized" => is_running
    /\ interrupted \cap live_processes = {}
    /\ sessionPc = "terminated" => ~is_running /\ live_processes = {}
    /\ \A t \in Turns :
          Rejected(t) =>
              /\ \A j \in 1..Len(user_events) : user_events[j] # t
              /\ \A i \in 1..Len(spawned) : spawned[i].call # t

\* C37: at most one turn subprocess of the session is in flight at any
\* time: a message sent while a previous turn is still streaming spawns no
\* second subprocess before the previous one has exited, and the process the
\* session tracks is the one in flight.
C37_OneTurnInFlight ==
    /\ Cardinality(live_processes) <= 1
    /\ \A t \in live_processes :
          turns[t].pc = "streaming" => current_process = t

(***************************************************************************)
(* SessionManager.end_interactive_session (session/manager.py)             *)
(*                                                                         *)
(* One interactive run, registered by start_interactive_session.  Turns    *)
(* are started by send_interactive_message, each as a background task      *)
(* stream_response; _interactive_tasks keeps the task of the last turn     *)
(* only.  end_interactive_session is a coroutine: every await in it is a   *)
(* point where another call of it (a second HTTP request for the same run) *)
(* runs.  Each action below is the code from one await to the next.        *)
(***************************************************************************)
NumEndCalls == 2
MaxEndTurns == 2

EndCalls == 1..NumEndCalls
EndTasks == 1..MaxEndTurns
NoTask == 0

InitEndVars ==
    /\ interactive_sessions = TRUE
    /\ interactive_tasks = NoTask
    /\ session_is_running = TRUE
    /\ taskState = [t \in EndTasks |-> "unborn"]
    /\ end_status = "running"
    /\ session_snapshots = <<>>
    /\ endPc = [c \in EndCalls |-> "idle"]
    /\ existing = [c \in EndCalls |-> FALSE]

\* The stream_response tasks that have not ended.
RunningTasks == {t \in EndTasks : taskState[t] = "running"}

\* send_interactive_message: refused without a registered, running session;
\* otherwise the turn's task is created and stored under the run id, in the
\* place of the task of the turn before.
SendInteractiveMessage(t) ==
    /\ UNCHANGED nonEndVars
    /\ interactive_sessions
    /\ session_is_running
    /\ taskState[t] = "unborn"
    /\ \A u \in EndTasks : u < t => taskState[u] # "unborn"
    /\ taskState' = [taskState EXCEPT ![t] = "running"]
    /\ interactive_tasks' = t
    /\ UNCHANGED <<interactive_sessions, session_is_running, end_status,
                   session_snapshots, endPc, existing>>

\* stream_response comes to the end of the turn by itself.
StreamResponseEnds(t) ==
    /\ UNCHANGED nonEndVars
    /\ taskState[t] = "running"
    /\ taskState' = [taskState EXCEPT ![t] = "finished"]
    /\ UNCHANGED <<interactive_sessions, interactive_tasks, session_is_running,
                   end_status, session_snapshots, endPc, existing>>

\* Lines 577-581: the lookup of the session; without one the call returns
\* False, with one it goes on to await session.terminate().
EndLookup(c) ==
    /\ UNCHANGED nonEndVars
    /\ endPc[c] = "idle"
    /\ endPc' = [endPc EXCEPT ![c] =
                    IF interactive_sessions THEN "terminate" ELSE "returned_false"]
    /\ UNCHANGED <<interactive_sessions, interactive_tasks, session_is_running,
                   taskState, end_status, session_snapshots, existing>>

\* Line 581: session.terminate() clears _is_running; line 582 is awaited next.
EndTerminate(c) ==
    /\ UNCHANGED nonEndVars
    /\ endPc[c] = "terminate"
    /\ session_is_running' = FALSE
    /\ endPc' = [endPc EXCEPT ![c] = "update_status"]
    /\ UNCHANGED <<interactive_sessions, interactive_tasks, taskState,
                   end_status, session_snapshots, existing>>

\* Lines 593-595: the session and its task leave the registries.
PopRegistries ==
    /\ interactive_sessions' = FALSE
    /\ interactive_tasks' = NoTask

\* Lines 582-589: the status is written; then the task stored under the run
\* id, if there is one, is cancelled and awaited.  Without a task the code
\* runs on to the pops and into _create_interactive_snapshot.
EndUpdateStatus(c) ==
    /\ UNCHANGED nonEndVars
    /\ endPc[c] = "update_status"
    /\ end_status' = "completed"
    /\ IF interactive_tasks # NoTask
         THEN /\ taskState' = [taskState EXCEPT ![interactive_tasks] =
                                  IF @ = "running" THEN "cancelled" ELSE @]
              /\ endPc' = [endPc EXCEPT ![c] = "await_task"]
              /\ UNCHANGED <<interactive_sessions, interactive_tasks>>
         ELSE /\ PopRegistries
              /\ endPc' = [endPc EXCEPT ![c] = "get_run"]
              /\ UNCHANGED taskState
    /\ UNCHANGED <<session_is_running, session_snapshots, existing>>

\* Lines 589-596: the cancelled task has ended; the registries are popped and
\* _create_interactive_snapshot is entered.
EndAwaitTask(c) ==
    /\ UNCHANGED nonEndVars
    /\ endPc[c] = "await_task"
    /\ PopRegistries
    /\ endPc' = [endPc EXCEPT ![c] = "get_run"]
    /\ UNCHANGED <<session_is_running, taskState, end_status,
                   session_snapshots, existing>>

\* _create_interactive_snapshot, lines 33-38: the run row is read (it exists)
\* and get_for_run is awaited next.
SnapshotGetRun(c) ==
    /\ UNCHANGED nonEndVars
    /\ endPc[c] = "get_run"
    /\ endPc' = [endPc EXCEPT ![c] = "get_for_run"]
    /\ UNCHANGED <<interactive_sessions, interactive_tasks, session_is_running,
                   taskState, end_status, session_snapshots, existing>>

\* SessionSnapshotRepository.get_for_run: a row of the run, if there is one.
GetForRun == session_snapshots # <<>>

\* Lines 38-40: existing = get_for_run(run_id); with a row the function
\* returns, without one it goes on to read the run's events.
SnapshotGetForRun(c) ==
    /\ UNCHANGED nonEndVars
    /\ endPc[c] = "get_for_run"
    /\ existing' = [existing EXCEPT ![c] = GetForRun]
    /\ endPc' = [endPc EXCEPT ![c] =
                    IF GetForRun THEN "returned_true" ELSE "read_events"]
    /\ UNCHANGED <<interactive_sessions, interactive_tasks, session_is_running,
                   taskState, end_status, session_snapshots>>

\* Lines 42-188: the events of the run are read and summarised.
SnapshotReadEvents(c) ==
    /\ UNCHANGED nonEndVars
    /\ endPc[c] = "read_events"
    /\ endPc' = [endPc EXCEPT ![c] = "create"]
    /\ UNCHANGED <<interactive_sessions, interactive_tasks, session_is_running,
                   taskState, end_status, session_snapshots, existing>>

\* INSERT INTO session_snapshots with a fresh id: the table gains the row.
\* The table's definition is not part of the sources; the specification
\* names the table and states no uniqueness of run_id, and get_for_run reads
\* with LIMIT 1.
InsertSnapshot(table, row) == Append(table, row)

\* Lines 189-195 and SessionSnapshotRepository.create: the row is inserted;
\* end_interactive_session returns True.  The row notes, for the claims, who
\* wrote it and which tasks were running then.
SnapshotCreate(c) ==
    /\ UNCHANGED nonEndVars
    /\ endPc[c] = "create"
    /\ session_snapshots' = InsertSnapshot(session_snapshots,
           [run_id |-> "run", call |-> c, running |-> RunningTasks,
            status |-> end_status])
    /\ endPc' = [endPc EXCEPT ![c] = "returned_true"]
    /\ UNCHANGED <<interactive_sessions, interactive_tasks, session_is_running,
                   taskState, end_status, existing>>

NextEnd ==
    \/ \E t \in EndTasks : SendInteractiveMessage(t)
    \/ \E t \in EndTasks : StreamResponseEnds(t)
    \/ \E c \in EndCalls : EndLookup(c)
    \/ \E c \in EndCalls : EndTerminate(c)
    \/ \E c \in EndCalls : EndUpdateStatus(c)
    \/ \E c \in EndCalls : EndAwaitTask(c)
    \/ \E c \in EndCalls : SnapshotGetRun(c)
    \/ \E c \in EndCalls : SnapshotGetForRun(c)
    \/ \E c \in EndCalls : SnapshotReadEvents(c)
    \/ \E c \in EndCalls : SnapshotCreate(c)

\* C31: after end_interactive_session(run) the background streaming task has
\* been cancelled before the snapshot is written, and exactly one resume
\* snapshot is stored for the run: no second call of end_interactive_session
\* for the run, after the first or concurrent with it, creates a second one.
C31_OneSnapshotAfterCancel ==
    /\ \A i \in 1..Len(session_snapshots) : session_snapshots[i].running = {}
    /\ Len(session_snapshots) <= 1
    /\ \A c \in EndCalls :
          endPc[c] = "returned_true" => Len(session_snapshots) = 1

(***************************************************************************)
(* extract_run_memory, persist_run_memory (session/memory.py) and          *)
(* RunMemoryRepository.upsert (persistence/repositories.py)                *)
(*                                                                         *)
(* One run whose events are stored and whose status is final, and a table  *)
(* run_memory_entries that already holds the entry of an earlier run.      *)
(* The sample texts are single-spaced and shorter than every max_len, so   *)
(* _clean_line and _normalize_command return them as they are; the text    *)
(* joined from the assistant parts is kept as the sequence of the parts.   *)
(***************************************************************************)
MaxLogLen == 3
MaxPersists == 2

MemRun == "r1"
EarlierRun == "r0"
FinalStatuses == {"completed", "failed"}

MemEvent(type, content, tool_name, path, command) ==
    [type |-> type, content |-> content, tool_name |-> tool_name,
     path |-> path, command |-> command]

\* The events a run's log is made of.
MemEvents ==
    {MemEvent("stream.user", c, "", "", "") : c \in {"fix the bug", "[Agent note]"}}
    \cup {MemEvent("stream.assistant", c, "", "", "") : c \in {"done", "let me know"}}
    \cup {MemEvent("stream.result", "", "", "", "")}
    \cup {MemEvent("stream.tool_use", "", "Read", "a.py", ""),
          MemEvent("stream.tool_use", "", "Edit", "a.py", ""),
          MemEvent("stream.tool_use", "", "Bash", "", "pytest")}
    \cup {MemEvent("stream.error", "", "", "", "")}

RECURSIVE LogsOfLength(_)
LogsOfLength(n) ==
    IF n = 0 THEN {<<>>}
    ELSE {Append(log, e) : log \in LogsOfLength(n - 1), e \in MemEvents}

MemLogs == UNION {LogsOfLength(n) : n \in 0..MaxLogLen}

\* content.startswith("[Agent")
StartsWithAgent(content) == content \in {"[Agent note]"}

\* any(cue in lowered for cue in ("let me know", ...)), over the joined parts
HasCue(summary) == \E i \in 1..Len(summary) : summary[i] \in {"let me know"}

\* any(x in lowered_cmd for x in ("test", "pytest", ...))
IsTestCommand(command) == command \in {"pytest"}

\* items[-n:]
LastOf(items, n) ==
    IF Len(items) <= n THEN items
    ELSE SubSeq(items, Len(items) - n + 1, Len(items))

\* items[:n]
FirstOf(items, n) == IF Len(items) <= n THEN items ELSE SubSeq(items, 1, n)

InSeq(item, items) == \E i \in 1..Len(items) : items[i] = item

\* append unless seen
AppendNew(items, item) == IF InSeq(item, items) THEN items ELSE Append(items, item)

\* Lines 35-50: the locals before the first event.
MemoryLocals ==
    [first_goal |-> "", recent_user_goals |-> <<>>, touched_files |-> <<>>,
     commands |-> <<>>, latest_assistant_parts |-> <<>>,
     assistant_outcomes |-> <<>>, latest_assistant_summary |-> <<>>,
     error_count |-> 0, test_commands |-> <<>>, read_count |-> 0,
     edit_count |-> 0, write_count |-> 0, open_loops |-> <<>>]

\* Lines 56-64: a user event that is not an agent note.
OnUser(acc, e) ==
    IF e.content # "" /\ ~StartsWithAgent(e.content)
      THEN [acc EXCEPT
              !.first_goal = IF @ = "" THEN e.content ELSE @,
              !.recent_user_goals = LastOf(Append(@, e.content), 6),
              !.latest_assistant_parts = <<>>]
      ELSE acc

\* Lines 66-69.
OnAssistant(acc, e) ==
    IF e.content # ""
      THEN [acc EXCEPT !.latest_assistant_parts = Append(@, e.content)]
      ELSE acc

\* Lines 71-91: a result event closes the assistant text gathered so far.
OnResult(acc) ==
    IF acc.latest_assistant_parts # <<>>
      THEN LET summary == acc.latest_assistant_parts
           IN  [acc EXCEPT
                  !.latest_assistant_summary = summary,
                  !.assistant_outcomes = LastOf(Append(@, summary), 3),
                  !.open_loops = IF HasCue(summary) THEN AppendNew(@, summary) ELSE @]
      ELSE acc

\* Lines 93-117.
OnToolUse(acc, e) ==
    LET new_command == e.tool_name = "Bash" /\ e.command # ""
                          /\ ~InSeq(e.command, acc.commands)
    IN  [acc EXCEPT
           !.read_count = IF e.tool_name \in {"Glob", "Grep", "Read"} THEN @ + 1 ELSE @,
           !.edit_count = IF e.tool_name = "Edit" THEN @ + 1 ELSE @,
           !.write_count = IF e.tool_name = "Write" THEN @ + 1 ELSE @,
           !.touched_files = IF e.path # "" THEN AppendNew(@, e.path) ELSE @,
           !.commands = IF new_command THEN Append(@, e.command) ELSE @,
           !.test_commands = IF new_command /\ IsTestCommand(e.command)
                               THEN Append(@, e.command) ELSE @]

\* Lines 52-120: the body of the loop for one event.
OnEvent(acc, e) ==
    CASE e.type = "stream.user" -> OnUser(acc, e)
      [] e.type = "stream.assistant" -> OnAssistant(acc, e)
      [] e.type = "stream.result" -> OnResult(acc)
      [] e.type = "stream.tool_use" -> OnToolUse(acc, e)
      [] e.type \in {"stream.error", "run.failed"} ->
            [acc EXCEPT !.error_count = @ + 1]
      [] OTHER -> acc

RECURSIVE ReadEvents(_, _)
ReadEvents(acc, log) ==
    IF log = <<>> THEN acc ELSE ReadEvents(OnEvent(acc, Head(log)), Tail(log))

\* Lines 122-130.
Phases(acc) ==
    (IF acc.read_count > 0 THEN <<"exploration">> ELSE <<>>)
    \o (IF acc.write_count > 0 \/ acc.edit_count > 0 THEN <<"implementation">> ELSE <<>>)
    \o (IF acc.test_commands # <<>> THEN <<"validation">> ELSE <<>>)
    \o (IF acc.error_count > 0 THEN <<"error_handling">> ELSE <<>>)

\* Lines 132-139.
NextAction(acc, status) ==
    IF status = "failed" THEN "fix the latest failure"
    ELSE IF acc.test_commands # <<>> THEN "re-run targeted tests"
    ELSE IF acc.touched_files # <<>> THEN "review touched files"
    ELSE "clarify the next step"

\* Lines 142-144: the last assistant summary, or a line about the run.
ShortSummary(acc, status) ==
    IF acc.latest_assistant_summary # <<>>
      THEN [text |-> acc.latest_assistant_summary, status |-> "",
            files |-> 0, commands |-> 0]
      ELSE [text |-> <<>>, status |-> status,
            files |-> Len(acc.touched_files), commands |-> Len(acc.commands)]

\* extract_run_memory: the memory of a run from its status and its events.
ExtractRunMemory(status, log) ==
    LET acc == ReadEvents(MemoryLocals, log)
    IN  [objective |-> acc.first_goal,
         short_summary |-> ShortSummary(acc, status),
         status |-> status,
         recent_user_goals |-> LastOf(acc.recent_user_goals, 4),
         assistant_outcomes |-> LastOf(acc.assistant_outcomes, 2),
         files_touched |-> FirstOf(acc.touched_files, 24),
         commands |-> FirstOf(acc.commands, 24),
         test_commands |-> FirstOf(acc.test_commands, 12),
         error_count |-> acc.error_count,
         phases |-> Phases(acc),
         open_loops |-> FirstOf(acc.open_loops, 6),
         next_action |-> NextAction(acc, status),
         phase_counts |-> [read_ops |-> acc.read_count,
                           write_ops |-> acc.write_count,
                           edit_ops |-> acc.edit_count]]

\* RunMemoryRepository.get_for_run: there is a row of the run.
HasEntry(table, run_id) == \E i \in 1..Len(table) : table[i].run_id = run_id

\* An upsert that inserts whether or not the run has a row.
UpsertAlwaysInserts(table, run_id, objective, short_summary, memory, now) ==
    Append(table, [id |-> Len(table) + 1, run_id |-> run_id,
                   objective |-> objective, short_summary |-> short_summary,
                   memory |-> memory, created_at |-> now, updated_at |-> now])

\* RunMemoryRepository.upsert: the rows of the run are updated in place,
\* keeping id and created_at; without a row one is inserted under a fresh id.
Upsert(table, run_id, objective, short_summary, memory, now) ==
    IF HasEntry(table, run_id)
      THEN [i \in 1..Len(table) |->
              IF table[i].run_id = run_id
                THEN [table[i] EXCEPT !.objective = objective,
                                      !.short_summary = short_summary,
                                      !.memory = memory,
                                      !.updated_at = now]
                ELSE table[i]]
      ELSE Append(table, [id |-> Len(table) + 1, run_id |-> run_id,
                          objective |-> objective, short_summary |-> short_summary,
                          memory |-> memory, created_at |-> now, updated_at |-> now])

\* The entry of an earlier run, written at time 0.
EarlierEntry ==
    LET memory == ExtractRunMemory("completed", <<>>)
    IN  [id |-> 1, run_id |-> EarlierRun, objective |-> "",
         short_summary |-> memory.short_summary, memory |-> memory,
         created_at |-> 0, updated_at |-> 0]

\* What an entry holds besides its timestamps.
EntryContent(row) ==
    [id |-> row.id, run_id |-> row.run_id, objective |-> row.objective,
     short_summary |-> row.short_summary, memory |-> row.memory]

EntriesOf(run_id) ==
    {i \in 1..Len(run_memory_entries) : run_memory_entries[i].run_id = run_id}

NoContent == [id |-> 0]

InitMemoryVars ==
    /\ memPc = "running"
    /\ memLog = <<>>
    /\ memStatus = "running"
    /\ run_memory_entries = <<EarlierEntry>>
    /\ memClock = 1
    /\ persisted = 0
    /\ firstContent = NoContent

\* The run ends: its events are stored and its status is final.
RunEnds ==
    /\ memPc = "running"
    /\ UNCHANGED nonMemoryVars
    /\ memPc' = "over"
    /\ \E log \in MemLogs, status \in FinalStatuses :
          /\ memLog' = log
          /\ memStatus' = status
    /\ UNCHANGED <<run_memory_entries, memClock, persisted, firstContent>>

\* persist_run_memory(db, run_id): the memory is extracted from the run's
\* status and events and upserted under the run id.
PersistRunMemory ==
    /\ memPc = "over"
    /\ persisted < MaxPersists
    /\ UNCHANGED nonMemoryVars
    /\ LET memory == ExtractRunMemory(memStatus, memLog)
           table == Upsert(run_memory_entries, MemRun, memory.objective,
                           memory.short_summary, memory, memClock)
       IN  /\ run_memory_entries' = table
           /\ firstContent' =
                 IF persisted = 0
                   THEN EntryContent(table[CHOOSE i \in 1..Len(table) :
                                              table[i].run_id = MemRun])
                   ELSE firstContent
    /\ memClock' = memClock + 1
    /\ persisted' = persisted + 1
    /\ UNCHANGED <<memPc, memLog, memStatus>>

NextMemory ==
    \/ RunEnds
    \/ PersistRunMemory

MaxSnapshots == 2

PathA == <<"a", ".", "t", "x", "t">>
PathB == <<"b", ".", "t", "x", "t">>

\* The files of the working tree, in git's path order.
GitFileOrder == <<PathA, PathB>>
GitFiles == {PathA, PathB}

Clean == <<" ", " ">>
Untracked == <<"?", "?">>

\* index column, worktree column
StatusCodes ==
    {Clean, <<" ", "M">>, <<"M", " ">>, <<"M", "M">>, <<"A", " ">>, Untracked}

Whitespace == {" ", "\n"}

\* str.strip(): the text without leading and trailing whitespace
RECURSIVE LStrip(_)
LStrip(text) ==
    IF text # <<>> /\ Head(text) \in Whitespace THEN LStrip(Tail(text)) ELSE text

RECURSIVE RStrip(_)
RStrip(text) ==
    IF text # <<>> /\ text[Len(text)] \in Whitespace
      THEN RStrip(SubSeq(text, 1, Len(text) - 1))
      ELSE text

Strip(text) == RStrip(LStrip(text))

\* str.split("\n"): the lines of the text
RECURSIVE SplitLines(_, _)
SplitLines(text, line) ==
    IF text = <<>> THEN <<line>>
    ELSE IF Head(text) = "\n" THEN <<line>> \o SplitLines(Tail(text), <<>>)
    ELSE SplitLines(Tail(text), Append(line, Head(text)))

\* text[:n] and text[n:]
SliceTo(text, n) == IF Len(text) <= n THEN text ELSE SubSeq(text, 1, n)
SliceFrom(text, n) == IF Len(text) <= n THEN <<>> ELSE SubSeq(text, n + 1, Len(text))

\* git status --porcelain: one line "XY path" per file with a change, the
\* tracked files first, then the untracked ones.
IsTrackedChange(tree, f) == tree[f] \notin {Clean, Untracked}

RECURSIVE PorcelainOf(_, _, _)
PorcelainOf(tree, order, untracked) ==
    IF order = <<>> THEN <<>>
    ELSE LET f == Head(order)
             listed == IF untracked THEN tree[f] = Untracked
                       ELSE IsTrackedChange(tree, f)
         IN  (IF listed THEN tree[f] \o <<" ">> \o f \o <<"\n">> ELSE <<>>)
             \o PorcelainOf(tree, Tail(order), untracked)

GitStatusPorcelain(tree) ==
    PorcelainOf(tree, GitFileOrder, FALSE) \o PorcelainOf(tree, GitFileOrder, TRUE)

\* _run_git: the command's standard output, decoded and stripped.
RunGit(stdout) == Strip(stdout)

\* _get_state, lines 151-173: the lists parsed from the status text.
RECURSIVE ParseStatus(_, _)
ParseStatus(lines, acc) ==
    IF lines = <<>> THEN acc
    ELSE LET line == Head(lines)
             status_code == SliceTo(line, 2)
             filepath == SliceFrom(line, 3)
         IN  IF line = <<>> THEN ParseStatus(Tail(lines), acc)
             ELSE ParseStatus(Tail(lines),
                    [staged |-> IF status_code[1] \notin {" ", "?"}
                                  THEN Append(acc.staged, filepath) ELSE acc.staged,
                     dirty |-> IF status_code[2] \notin {" ", "?"}
                                 THEN Append(acc.dirty, filepath) ELSE acc.dirty,
                     untracked |-> IF status_code = Untracked
                                     THEN Append(acc.untracked, filepath)
                                     ELSE acc.untracked])

\* _get_state: GitState of the working tree.
GetState(is_repo, tree) ==
    IF ~is_repo
      THEN [is_git_repo |-> FALSE, dirty_files |-> <<>>, staged_files |-> <<>>,
            untracked_files |-> <<>>]
      ELSE LET status == RunGit(GitStatusPorcelain(tree))
               lists == ParseStatus(SplitLines(Strip(status), <<>>),
                                    [staged |-> <<>>, dirty |-> <<>>, untracked |-> <<>>])
           IN  [is_git_repo |-> TRUE, dirty_files |-> lists.dirty,
                staged_files |-> lists.staged, untracked_files |-> lists.untracked]

NoSnapshot ==
    [taken |-> FALSE, is_git_repo |-> FALSE, dirty_files |-> <<>>,
     staged_files |-> <<>>, untracked_files |-> <<>>,
     tree |-> [f \in GitFiles |-> Clean], repo |-> FALSE]

InitGitVars ==
    /\ tracker_is_git_repo = "unknown"
    /\ worktree = [f \in GitFiles |-> Clean]
    /\ git_snapshot = NoSnapshot
    /\ snapshots_taken = 0

\* A file of the working tree is edited, staged, created or restored.
WorkTreeChanges(f, code) ==
    /\ worktree[f] # code
    /\ UNCHANGED nonGitVars
    /\ worktree' = [worktree EXCEPT ![f] = code]
    /\ UNCHANGED <<tracker_is_git_repo, git_snapshot, snapshots_taken>>

\* snapshot(): is_git_repo() asks git once and remembers the answer;
\* _get_state reads the tree; the event carries the dirty and the untracked
\* files together as dirty_files.
TakeSnapshot(dir_is_repo) ==
    /\ snapshots_taken < MaxSnapshots
    /\ tracker_is_git_repo = "unknown" \/ dir_is_repo = (tracker_is_git_repo = "yes")
    /\ UNCHANGED nonGitVars
    /\ tracker_is_git_repo' = IF dir_is_repo THEN "yes" ELSE "no"
    /\ LET git_state == GetState(dir_is_repo, worktree)
       IN  git_snapshot' =
             [taken |-> TRUE, is_git_repo |-> git_state.is_git_repo,
              dirty_files |-> git_state.dirty_files \o git_state.untracked_files,
              staged_files |-> git_state.staged_files,
              untracked_files |-> git_state.untracked_files,
              tree |-> worktree, repo |-> dir_is_repo]
    /\ snapshots_taken' = snapshots_taken + 1
    /\ UNCHANGED worktree

NextGit ==
    \/ \E f \in GitFiles, code \in StatusCodes : WorkTreeChanges(f, code)
    \/ \E dir_is_repo \in BOOLEAN : TakeSnapshot(dir_is_repo)

\* C33: snapshot() classifies every entry of git status --porcelain, the
\* first one included, by its two status columns: a file whose worktree
\* column is set and is not ? is in dirty_files under its full path, a file
\* whose index column is set is in staged_files, a ?? file is in
\* untracked_files; with no index column set staged_files is empty, and
\* is_git_repo is true for a repository.
C33_SnapshotClassifies ==
    (git_snapshot.taken /\ git_snapshot.repo) =>
        /\ git_snapshot.is_git_repo
        /\ \A f \in GitFiles :
              LET code == git_snapshot.tree[f]
              IN  /\ code[2] \notin {" ", "?"} => InSeq(f, git_snapshot.dirty_files)
                  /\ code[1] \notin {" ", "?"} => InSeq(f, git_snapshot.staged_files)
                  /\ code = Untracked => InSeq(f, git_snapshot.untracked_files)
        /\ (\A f \in GitFiles : git_snapshot.tree[f][1] \in {" ", "?"})
              => git_snapshot.staged_files = <<>>

(***************************************************************************)
(* Specifications                                                          *)
(***************************************************************************)
Init ==
    /\ InitBusVars
    /\ InitParserVars
    /\ InitAgentVars
    /\ InitBranchVars
    /\ InitRunVars
    /\ InitPatternVars
    /\ InitWsVars
    /\ InitInteractiveVars
    /\ InitEndVars
    /\ InitMemoryVars
    /\ InitGitVars

SpecBus == Init /\ [][NextBus]_vars

SpecBusReset == Init /\ [][NextBusReset]_vars

SpecParser == Init /\ [][NextParser]_vars

SpecAgent == Init /\ [][NextAgent]_vars

SpecBranch == Init /\ [][NextBranch]_vars

SpecRun == Init /\ [][NextRun]_vars

SpecPattern == Init /\ [][NextPattern]_vars

SpecWs == Init /\ [][NextWs]_vars

SpecInteractive == Init /\ [][NextInteractive]_vars

SpecEnd == Init /\ [][NextEnd]_vars

SpecMemory == Init /\ [][NextMemory]_vars

SpecGit == Init /\ [][NextGit]_vars

====
